---- MODULE Spec2Model ----
(***************************************************************************)
(* The HTTP client of src/src/http_client.c: one client object (struct     *)
(* httpclient), the applet (task) that start binds to it, the response     *)
(* channel the host fills with HTX blocks, and the caller's API.           *)
(*                                                                         *)
(* The code's functions are operators over a record W ("world") holding    *)
(* every object they can touch; an action applies one function to the      *)
(* current world and commits the result.                                   *)
(***************************************************************************)
EXTENDS Integers, Sequences, FiniteSets, TLC

VARIABLES hc, ap, res, req, wire, tasks, call, cref, mt, xfer_sock_list, xfer_mem,
          rcv, fdtab, glob, cli

vars == <<hc, ap, res, req, wire, tasks, call, cref, mt, xfer_sock_list, xfer_mem,
          rcv, fdtab, glob, cli>>

\* the sockets received from the old process: the head of their list and
\* the memory that holds its entries
xfer == <<xfer_sock_list, xfer_mem>>

\* a receiver (struct receiver), the table of file descriptors, and the
\* globals sock.c reads: stopping, master, global.tune.options
bound == <<rcv, fdtab, glob>>

\* the state of sock.c, and of the httpclient command of the CLI (struct
\* hcli_svc_ctx and what its handler did last)
socks == <<xfer, bound, cli>>

\* a receiver that was never bound
NoReceiver == [flags |-> {}, fd |-> -1]

\* no httpclient command on the CLI.  flags: ctx->flags; out: what the last
\* call of the handler wrote; ret: what it returned; ph: how far the task
\* of the client has notified
NoCli == [flags |-> {}, out |-> <<>>, ret |-> 0, ph |-> 0]

Unbound == rcv = NoReceiver /\ fdtab = <<>> /\ glob = <<>> /\ cli = NoCli

(***************************************************************************)
(* Bounds of the model.                                                    *)
(***************************************************************************)
\* global.tune.max_http_hdr: entries of the scratch array of RES_HDR
MaxHttpHdr == 2
\* bytes of the longest response body the peer sends
MaxBody == 2
\* b_size() of hc->res.buf
BufSize == 2
\* b_size() of the caller's destination buffer
DstSize == 1
\* bytes of request body the payload callback pushes in all
MaxReqBytes == 1
\* room of an HTX message of the request side, in payload bytes
HtxSize == 1

Min(a, b) == IF a < b THEN a ELSE b

\* F(v), with v computed once
With(v, F(_)) == CHOOSE y \in {F(x) : x \in {v}} : TRUE

NULL == 0

\* the address of the applet context appctx_new_here returns
APPCTX == 1

(***************************************************************************)
(* Flags of hc->flags (HTTPCLIENT_FS_x, HTTPCLIENT_FA_x) and the states of *)
(* the applet (HTTPCLIENT_S_x).                                            *)
(***************************************************************************)
FS_STARTED == "STARTED"
FS_ENDED == "ENDED"
FA_AUTOKILL == "AUTOKILL"
FA_STOP == "STOP"

S_REQ == "REQ"
S_REQ_BODY == "REQ_BODY"
S_RES_STLINE == "RES_STLINE"
S_RES_HDR == "RES_HDR"
S_RES_BODY == "RES_BODY"
S_RES_END == "RES_END"

\* rank of a state in the enum
StateRank(s) ==
    CASE s = S_REQ -> 0
      [] s = S_REQ_BODY -> 1
      [] s = S_RES_STLINE -> 2
      [] s = S_RES_HDR -> 3
      [] s = S_RES_BODY -> 4
      [] s = S_RES_END -> 5

(***************************************************************************)
(* HTX: a message is a sequence of blocks and the HTX_FL_EOM flag.  A      *)
(* block is [t, v]: its type and its payload; its size is the length of    *)
(* the payload (1 for the blocks that carry none).                         *)
(***************************************************************************)
\* struct ist: ptr is whether it has a pointer, s what it points to
ist(s) == [ptr |-> TRUE, s |-> s]

NoStr == [ptr |-> FALSE, s |-> ""]

NoData == [ptr |-> FALSE, s |-> <<>>]

isttest(i) == i.ptr

Blk(t, v) == [t |-> t, v |-> v]

\* the payload of a response start line block (struct htx_sl)
StLine(status, vsn, reason) == <<[status |-> status, vsn |-> vsn, reason |-> reason]>>

htx_get_blksz(blk) == Len(blk.v)

htx_is_empty(htx) == htx.blks = <<>>

RECURSIVE SumSz(_)
SumSz(blks) == IF blks = <<>> THEN 0 ELSE htx_get_blksz(Head(blks)) + SumSz(Tail(blks))

EmptyHtx == [blks |-> <<>>, eom |-> FALSE]

Range1(a, b) == [i \in 1..(b - a + 1) |-> a + i - 1]

(***************************************************************************)
(* What the peer sends, block by block: a status line, header blocks       *)
(* numbered from 1, the end-of-headers block, then data blocks whose bytes *)
(* are numbered from 1 in wire order and end-of-trailers blocks.  The      *)
(* block that ends the message comes with HTX_FL_EOM.  wire is where the   *)
(* peer is: ph the phase, nh the headers and nb the body bytes sent.       *)
(***************************************************************************)
NoWire == [ph |-> "none", nh |-> 0, nb |-> 0]

WireStart == [ph |-> "sl", nh |-> 0, nb |-> 0]

\* the [blk, eom, wire] the peer can send next, of a response of at most
\* maxhdr headers and maxbody bytes of body
WireNextFor(w, maxhdr, maxbody) ==
    CASE w.ph = "sl" ->
           { [blk |-> Blk("SL", StLine(200, "HTTP/1.1", "OK")), eom |-> FALSE, wire |-> [w EXCEPT !.ph = "hdr"]] }
      [] w.ph = "hdr" ->
           { [blk |-> Blk("HDR", <<w.nh + 1>>), eom |-> FALSE, wire |-> [w EXCEPT !.nh = @ + 1]] :
               x \in IF w.nh < maxhdr THEN {1} ELSE {} }
           \cup
           { [blk |-> Blk("EOH", <<0>>), eom |-> last,
              wire |-> [w EXCEPT !.ph = IF last THEN "done" ELSE "body"]] : last \in BOOLEAN }
      [] w.ph = "body" ->
           { [blk |-> Blk("DATA", Range1(w.nb + 1, w.nb + k)), eom |-> last,
              wire |-> [w EXCEPT !.nb = @ + k, !.ph = IF last THEN "done" ELSE "body"]] :
               k \in 1..(maxbody - w.nb), last \in BOOLEAN }
           \cup
           { [blk |-> Blk("EOT", <<0>>), eom |-> TRUE, wire |-> [w EXCEPT !.ph = "done"]] }
      [] OTHER -> {}

WireNext(w) == WireNextFor(w, MaxHttpHdr, MaxBody)

(***************************************************************************)
(* The callback slots of hc->ops a caller installs before start.           *)
(***************************************************************************)
AllOps == {"req_payload", "res_stline", "res_headers", "res_payload", "res_end"}

\* every slot installed, or none: each test of a slot goes both ways
OpsChoices == { AllOps, {} }

(***************************************************************************)
(* The world the code's functions act on.                                  *)
(*   hc    the client: struct httpclient, plus the observations made on it *)
(*         (destroys, bug, dflags, uaf, oob)                               *)
(*   ap    the applet context of the task bound to it and what the host    *)
(*         keeps about it (woken, shut: both directions were shut)         *)
(*   res   the response channel of the stream: HTX message, co_data(),     *)
(*         and whether the transport was shut                              *)
(*   req   the request channel of the stream                               *)
(*   tasks number of live applets whose svcctx is the client               *)
(*   ret   what the API call of this step returned                         *)
(*   wire  what the peer has sent of its response                          *)
(*   call  the API call of the last step: its name, its return value, what *)
(*         it was given (arg: for httpclient_start what the start met, for *)
(*         httpclient_res_xfer the destination buffer), and for            *)
(*         httpclient_res_xfer the destination buffer after it (dout) and  *)
(*         hc->res.buf before it (bin); NoCall after any other step        *)
(*   cref  whether the caller still holds its pointer to the client        *)
(*   mt    program counters of the two threads of the cross-thread stop    *)
(***************************************************************************)
\* no address (a null pointer), and the stream of a task that has none yet:
\* its target and the destination on its front and back sides
NoAddr == [ip |-> <<>>, port |-> 0]

NoStrm == [target |-> "none", scf_dst |-> NoAddr, scb_dst |-> NoAddr]

World ==
    [hc |-> hc, ap |-> ap, res |-> res, req |-> req, tasks |-> tasks, ret |-> NULL,
     strm |-> NoStrm]

NoCall == [op |-> "none", v |-> 0, arg |-> <<>>, dout |-> <<>>, bin |-> <<>>]

Call(op, v) == [NoCall EXCEPT !.op = op, !.v = v]

Commit(W) ==
    /\ hc' = W.hc
    /\ ap' = W.ap
    /\ res' = W.res
    /\ req' = W.req
    /\ tasks' = W.tasks

NoBuf == [alloc |-> FALSE, data |-> <<>>]

NoClient ==
    [alloc |-> "none", flags |-> {}, caller |-> FALSE, appctx |-> NULL, ops |-> {},
     req_buf |-> [alloc |-> FALSE, htx |-> EmptyHtx],
     res_status |-> 0, res_vsn |-> NoStr, res_reason |-> NoStr,
     res_hdrs |-> <<>>, res_buf |-> NoBuf,
     destroys |-> 0, bug |-> FALSE, dflags |-> {}, uaf |-> FALSE, oob |-> FALSE,
     crashed |-> FALSE, pushed |-> 0, dst |-> NoAddr]

\* cbs: the callbacks the task has invoked, in order; end: what the on-end
\* callback found when it was invoked
NoApplet ==
    [id |-> 0, alive |-> FALSE, st0 |-> S_REQ, woken |-> FALSE, shut |-> FALSE,
     cbs |-> <<>>, end |-> <<>>]

\* shut: CF_SHUTR or CF_SHUTR_NOW on the request channel, CF_SHUTW on the
\* response channel; shutw_now: CF_SHUTW_NOW on the response channel
NoChannel ==
    [htx |-> EmptyHtx, output |-> 0, shut |-> FALSE, eoi |-> FALSE, shutw_now |-> FALSE]

httpclient_started(h) == FS_STARTED \in h.flags

httpclient_ended(h) == FS_ENDED \in h.flags

\* appctx_wakeup(): the task is scheduled to run
appctx_wakeup(W) == [W EXCEPT !.ap.woken = TRUE]

(***************************************************************************)
(* httpclient_destroy: BUG_ON(started && !ended) aborts the process (bug); *)
(* otherwise every field and the object are freed.  dflags keeps the flags *)
(* the function was entered with.                                          *)
(***************************************************************************)
httpclient_destroy(h) ==
    IF h.alloc = "none" THEN h
    ELSE IF httpclient_started(h) /\ ~httpclient_ended(h)
    THEN [h EXCEPT !.bug = TRUE, !.destroys = @ + 1, !.dflags = h.flags]
    ELSE [h EXCEPT !.alloc = "freed", !.destroys = @ + 1, !.dflags = h.flags,
                   !.req_buf = [alloc |-> FALSE, htx |-> EmptyHtx],
                   !.res_vsn = NoStr, !.res_reason = NoStr,
                   !.res_hdrs = <<>>, !.res_buf = NoBuf, !.dst = NoAddr]

(***************************************************************************)
(* httpclient_new(caller, meth, url): calloc, then the fields set from the *)
(* arguments.  ops are installed by the caller right after (hc->ops.x =).  *)
(***************************************************************************)
httpclient_new(W, oom, ops) ==
    IF oom THEN [W EXCEPT !.hc = httpclient_destroy(W.hc)]
    ELSE [W EXCEPT !.hc = [NoClient EXCEPT !.alloc = "live", !.caller = TRUE, !.ops = ops]]

\* the task runs a callback slot of hc->ops: the task's log gets its name (a
\* run of request-body callbacks is logged once)
Callback(W, name) ==
    IF name = "req_payload" /\ W.ap.cbs # <<>> /\ W.ap.cbs[Len(W.ap.cbs)] = name THEN W
    ELSE [W EXCEPT !.ap.cbs = Append(@, name)]

(***************************************************************************)
(* URLs.  A string is the sequence of its characters.  The URI parser      *)
(* (http_uri_parser_init, http_parse_scheme, http_parse_authority) is      *)
(* library code the function calls; it is modelled by what it does: a URI  *)
(* that is empty, starts with / or is * has neither scheme nor authority   *)
(* (both are null ists); a scheme is a letter, then letters, digits, +, -  *)
(* or ., then ://, and is returned with the ://; the authority runs up to  *)
(* the next / and, for this caller, starts after its last @.               *)
(***************************************************************************)
Letters == {"a", "f", "h", "p", "s", "t", "u", "H", "P", "S", "T"}

Digits == {"0", "1", "4", "8"}

isdigit(c) == c \in Digits

chr_tolower(c) ==
    CASE c = "H" -> "h"
      [] c = "T" -> "t"
      [] c = "P" -> "p"
      [] c = "S" -> "s"
      [] OTHER -> c

istlower(str) == [i \in 1..Len(str) |-> chr_tolower(str[i])]

DigitVal(c) ==
    CASE c = "0" -> 0
      [] c = "1" -> 1
      [] c = "4" -> 4
      [] c = "8" -> 8

\* atoi of a string of digits
RECURSIVE atoi(_)
atoi(str) ==
    IF str = <<>> THEN 0
    ELSE 10 * atoi(SubSeq(str, 1, Len(str) - 1)) + DigitVal(str[Len(str)])

SCH_HTTP == "http"

SCH_HTTPS == "https"

HttpPrefix == <<"h", "t", "t", "p", ":", "/", "/">>

HttpsPrefix == <<"h", "t", "t", "p", "s", ":", "/", "/">>

\* the format the parser gives the URI
http_uri_parser_init(uri) ==
    IF uri = <<>> THEN "empty"
    ELSE IF uri[1] = "/" THEN "abspath"
    ELSE IF uri = <<"*">> THEN "asterisk"
    ELSE "absuri"

\* the index of the first character from i on that cannot be in a scheme
RECURSIVE SchemeEnd(_, _)
SchemeEnd(uri, i) ==
    IF i <= Len(uri) /\ uri[i] \in Letters \cup Digits \cup {"+", "-", "."}
    THEN SchemeEnd(uri, i + 1) ELSE i

\* [scheme, rest]: the scheme and what is left to parse
http_parse_scheme(uri) ==
    LET i == SchemeEnd(uri, 2)
    IN  IF /\ http_uri_parser_init(uri) = "absuri"
           /\ uri[1] \in Letters
           /\ i + 2 <= Len(uri)
           /\ SubSeq(uri, i, i + 2) = <<":", "/", "/">>
        THEN [scheme |-> ist(SubSeq(uri, 1, i + 2)), rest |-> SubSeq(uri, i + 3, Len(uri))]
        ELSE [scheme |-> NoData, rest |-> uri]

\* the index of the first / of str from i on, or Len(str) + 1
RECURSIVE SlashAt(_, _)
SlashAt(str, i) ==
    IF i <= Len(str) /\ str[i] # "/" THEN SlashAt(str, i + 1) ELSE i

\* the index after the last @ of str[1..n], or 1
RECURSIVE AfterAt(_, _)
AfterAt(str, n) ==
    IF n = 0 THEN 1
    ELSE IF str[n] = "@" THEN n + 1
    ELSE AfterAt(str, n - 1)

\* [auth, rest]: the authority without its user information, and what
\* follows it
http_parse_authority(uri, rest) ==
    IF http_uri_parser_init(uri) # "absuri" THEN [auth |-> NoData, rest |-> rest]
    ELSE LET e == SlashAt(rest, 1)
         IN  [auth |-> ist(SubSeq(rest, AfterAt(rest, e - 1), e - 1)),
              rest |-> SubSeq(rest, e, Len(rest))]

(***************************************************************************)
(* httpclient_spliturl(url, &scheme, &host, &port).  p is the index in the *)
(* authority of the character the pointer p is at, Len + 1 for its end.    *)
(* The loop of line 507 steps back over the digits at the end; the test of *)
(* line 510 then reads *p: through a null pointer when there is no         *)
(* authority (the process ends), and for an empty authority the character  *)
(* that follows it, which is beyond the URL when the authority ends it     *)
(* (g is what that byte holds).                                            *)
(***************************************************************************)
RECURSIVE port_scan(_, _)
port_scan(a, p) ==
    IF p > 1
    THEN IF isdigit(a[p - 1]) THEN port_scan(a, p - 1) ELSE p - 1
    ELSE p

httpclient_spliturl(url, g) ==
    LET S == http_parse_scheme(url)
        http == S.scheme.ptr /\ istlower(S.scheme.s) = HttpPrefix
        https == S.scheme.ptr /\ istlower(S.scheme.s) = HttpsPrefix
        port_tmp == IF http THEN 80 ELSE IF https THEN 443 ELSE 0
        A == http_parse_authority(url, S.rest)
        a == A.auth.s
        p == port_scan(a, Len(a) + 1)
        c == IF p <= Len(a) THEN a[p]
             ELSE IF A.rest # <<>> THEN A.rest[1]
             ELSE g
    IN  IF ~A.auth.ptr
        THEN [crashed |-> TRUE, scheme |-> SCH_HTTP, host |-> <<>>, port |-> 0]
        ELSE IF c = ":"
        THEN [crashed |-> FALSE, scheme |-> IF https THEN SCH_HTTPS ELSE SCH_HTTP,
              host |-> SubSeq(a, 1, p - 1), port |-> atoi(SubSeq(a, p + 1, Len(a)))]
        ELSE [crashed |-> FALSE, scheme |-> IF https THEN SCH_HTTPS ELSE SCH_HTTP,
              host |-> a, port |-> port_tmp]

(***************************************************************************)
(* Addresses are [ip, port].  str2ip2 and str2sa_range are library code:   *)
(* str2ip2 gives the address of a literal IP and null for any other host  *)
(* name; str2sa_range gives the address a well-formed destination          *)
(* describes and null otherwise.                                           *)
(***************************************************************************)
Addr(ip, port) == [ip |-> ip, port |-> port]

AnyIp == <<"0", ".", "0", ".", "0", ".", "0">>

str2ip2(str) ==
    IF str # <<>> /\ \A i \in 1..Len(str) : str[i] \in Digits \cup {"."}
    THEN Addr(str, 0) ELSE NoAddr

\* the destinations a caller gives to httpclient_set_dst
DstGood == <<"1", ".", "4", ":", "8">>

DstBad == <<"x">>

str2sa_range(dst) ==
    IF dst = DstGood THEN Addr(<<"1", ".", "4">>, 8) ELSE NoAddr

(***************************************************************************)
(* httpclient_set_dst(hc, dst).  oom: sockaddr_alloc fails.                *)
(***************************************************************************)
httpclient_set_dst_keep(W, dst, oom) ==
    LET sk == str2sa_range(dst)
        W1 == W
    IN  IF sk = NoAddr THEN [W1 EXCEPT !.ret = -1]
        ELSE IF oom THEN [W1 EXCEPT !.ret = -1]
        ELSE [W1 EXCEPT !.hc.dst = sk, !.ret = 0]

httpclient_set_dst(W, dst, oom) ==
    LET sk == str2sa_range(dst)
        W1 == [W EXCEPT !.hc.dst = NoAddr]
    IN  IF sk = NoAddr THEN [W1 EXCEPT !.ret = -1]
        ELSE IF oom THEN [W1 EXCEPT !.ret = -1]
        ELSE [W1 EXCEPT !.hc.dst = sk, !.ret = 0]

(***************************************************************************)
(* httpclient_applet_init.  env.url: hc->req.url; env.g: the byte after    *)
(* the URL; env.oom: sockaddr_alloc fails; env.srv_ssl: httpclient_srv_ssl *)
(* is set (it is null when SSL was disabled at boot, and the branch fails  *)
(* alike without USE_OPENSSL); env.nostream: appctx_finalize_startup       *)
(* fails.  On success the stream takes the request buffer as its input     *)
(* (hc->req.buf is handed over), gets its target and the destination on    *)
(* one of its sides (W.strm), and the applet is woken and bound to the     *)
(* client.  The result is [W, rc].                                         *)
(***************************************************************************)
\* lines 966-978: [ss_dst, doresolve]
init_dst_nooverride(h, U) ==
    LET lit == str2ip2(U.host)
    IN  IF lit # NoAddr THEN [ss_dst |-> [lit EXCEPT !.port = U.port], doresolve |-> FALSE]
        ELSE [ss_dst |-> Addr(AnyIp, U.port), doresolve |-> TRUE]

init_dst(h, U) ==
    LET lit == str2ip2(U.host)
    IN  IF h.dst # NoAddr THEN [ss_dst |-> h.dst, doresolve |-> FALSE]
        ELSE IF lit # NoAddr
        THEN [ss_dst |-> [lit EXCEPT !.port = U.port], doresolve |-> FALSE]
        ELSE [ss_dst |-> Addr(AnyIp, U.port), doresolve |-> TRUE]

\* lines 983-1001: the server the stream will use, "none" for goto out_free_addr
init_target_downgrade(scheme, env) ==
    IF scheme = SCH_HTTPS /\ env.srv_ssl THEN "srv_ssl" ELSE "srv_raw"

init_target(scheme, env) ==
    IF scheme = SCH_HTTP THEN "srv_raw"
    ELSE IF env.srv_ssl THEN "srv_ssl"
    ELSE "none"

init_stream_req(W, id, target, D) ==
    [W EXCEPT
       !.req = [NoChannel EXCEPT
                  !.htx = W.hc.req_buf.htx,
                  !.output = SumSz(W.hc.req_buf.htx.blks)],
       !.res = NoChannel,
       !.strm = [target |-> target,
                 scf_dst |-> IF D.doresolve THEN D.ss_dst ELSE NoAddr,
                 scb_dst |-> IF D.doresolve THEN NoAddr ELSE D.ss_dst],
       !.hc.req_buf = [alloc |-> FALSE, htx |-> EmptyHtx],
       !.hc.appctx = id,
       !.hc.flags = @ \cup {FS_STARTED},
       !.tasks = @ + 1,
       !.ap = [NoApplet EXCEPT
                 !.id = id, !.alive = TRUE, !.woken = TRUE,
                 !.st0 = IF "req_payload" \in W.hc.ops
                         THEN S_REQ_BODY ELSE S_REQ]]

\* lines 1003-1038
init_stream(W, id, target, D) ==
    [W EXCEPT
       !.req = [NoChannel EXCEPT
                  !.htx = W.hc.req_buf.htx,
                  !.output = SumSz(W.hc.req_buf.htx.blks)],
       !.res = NoChannel,
       !.strm = [target |-> target,
                 scf_dst |-> IF D.doresolve THEN D.ss_dst ELSE NoAddr,
                 scb_dst |-> IF D.doresolve THEN NoAddr ELSE D.ss_dst],
       !.hc.req_buf = [alloc |-> FALSE, htx |-> EmptyHtx],
       !.hc.appctx = id,
       !.hc.flags = @ \cup {FS_STARTED},
       !.tasks = @ + 1,
       !.ap = [NoApplet EXCEPT
                 !.id = id, !.alive = TRUE, !.woken = TRUE,
                 !.st0 = IF "req_payload" \in W.hc.ops
                         THEN S_REQ_BODY ELSE S_RES_STLINE]]

httpclient_applet_init_early(W, id, env) ==
    LET B == [W EXCEPT !.hc.appctx = id, !.hc.flags = @ \cup {FS_STARTED}]
        U == httpclient_spliturl(env.url, env.g)
        target == init_target(U.scheme, env)
    IN  IF U.crashed THEN [W |-> [B EXCEPT !.hc.crashed = TRUE], rc |-> -1]
        ELSE IF env.oom THEN [W |-> B, rc |-> -1]
        ELSE IF target = "none" THEN [W |-> B, rc |-> -1]
        ELSE IF env.nostream THEN [W |-> B, rc |-> -1]
        ELSE [rc |-> 0, W |-> init_stream(W, id, target, init_dst(W.hc, U))]

httpclient_applet_init(W, id, env) ==
    LET U == httpclient_spliturl(env.url, env.g)
        target == init_target(U.scheme, env)
    IN  IF U.crashed THEN [W |-> [W EXCEPT !.hc.crashed = TRUE], rc |-> -1]
        ELSE IF env.oom THEN [W |-> W, rc |-> -1]
        ELSE IF target = "none" THEN [W |-> W, rc |-> -1]
        ELSE IF env.nostream THEN [W |-> W, rc |-> -1]
        ELSE [rc |-> 0, W |-> init_stream(W, id, target, init_dst(W.hc, U))]

(***************************************************************************)
(* httpclient_start.  newok: appctx_new_here succeeded.  A refused or      *)
(* failed start returns NULL; appctx_free_on_early_error frees the applet  *)
(* that could not be initialised.                                          *)
(***************************************************************************)
httpclient_start_noguard(W, id, newok, env) ==
    IF ~newok THEN [W EXCEPT !.ret = NULL]
    ELSE LET W1 == [W EXCEPT !.hc.flags = {}]
             I == httpclient_applet_init(W1, id, env)
         IN  IF I.rc = -1 THEN [I.W EXCEPT !.ret = NULL]
             ELSE [I.W EXCEPT !.ret = id]

httpclient_start(W, id, newok, env) ==
    IF httpclient_started(W.hc) /\ ~httpclient_ended(W.hc)
    THEN [W EXCEPT !.ret = NULL]
    ELSE IF ~newok THEN [W EXCEPT !.ret = NULL]
    ELSE LET W1 == [W EXCEPT !.hc.flags = {}]
             I == httpclient_applet_init(W1, id, env)
         IN  IF I.rc = -1 THEN [I.W EXCEPT !.ret = NULL]
             ELSE [I.W EXCEPT !.ret = id]

(***************************************************************************)
(* httpclient_stop_and_destroy                                             *)
(***************************************************************************)
httpclient_stop_and_destroy_nokill(W) ==
    IF FS_ENDED \in W.hc.flags \/ FS_STARTED \notin W.hc.flags
    THEN [W EXCEPT !.hc = httpclient_destroy(W.hc)]
    ELSE LET W1 == [W EXCEPT !.hc.flags = @ \cup {FA_STOP},
                             !.hc.caller = FALSE]
         IN  IF W1.hc.appctx # NULL THEN appctx_wakeup(W1) ELSE W1

httpclient_stop_and_destroy(W) ==
    IF FS_ENDED \in W.hc.flags \/ FS_STARTED \notin W.hc.flags
    THEN [W EXCEPT !.hc = httpclient_destroy(W.hc)]
    ELSE LET W1 == [W EXCEPT !.hc.flags = @ \cup {FA_AUTOKILL, FA_STOP},
                             !.hc.caller = FALSE]
         IN  IF W1.hc.appctx # NULL THEN appctx_wakeup(W1) ELSE W1

(***************************************************************************)
(* The on-end callback a caller installs, as hc_cli_res_end_cb has it: it  *)
(* returns at once when hc->caller is null, and otherwise flags and wakes  *)
(* the caller (notified).  ap.end keeps what the client looked like when   *)
(* the callback was entered.                                               *)
(***************************************************************************)
hc_cli_res_end_cb(W) ==
    LET seen == [alloc |-> W.hc.alloc, ended |-> httpclient_ended(W.hc),
                 appctx |-> W.hc.appctx, caller |-> W.hc.caller, notified |-> FALSE]
    IN  IF ~W.hc.caller THEN [W EXCEPT !.ap.end = <<seen>>]
        ELSE [W EXCEPT !.ap.end = <<[seen EXCEPT !.notified = TRUE]>>]

\* hc->ops.res_end(hc)
res_end_cb(W) == hc_cli_res_end_cb(Callback(W, "res_end"))

(***************************************************************************)
(* httpclient_applet_release, the exit hook the host runs once when the    *)
(* applet leaves; the host then frees the applet.                          *)
(***************************************************************************)
httpclient_applet_release_noended(W) ==
    LET W1 == [W EXCEPT !.hc.appctx = NULL]
        W2 == IF "res_end" \in W1.hc.ops THEN Callback(W1, "res_end") ELSE W1
    IN  IF FA_AUTOKILL \in W2.hc.flags
        THEN [W2 EXCEPT !.hc = httpclient_destroy(W2.hc)]
        ELSE W2

httpclient_applet_release_attached(W) ==
    LET W1 == [W EXCEPT !.hc.flags = @ \cup {FS_ENDED}, !.hc.appctx = NULL]
        W2 == IF "res_end" \in W1.hc.ops /\ W1.hc.caller
              THEN Callback(W1, "res_end") ELSE W1
    IN  IF FA_AUTOKILL \in W2.hc.flags
        THEN [W2 EXCEPT !.hc = httpclient_destroy(W2.hc)]
        ELSE W2

httpclient_applet_release_cbfirst(W) ==
    LET W1 == IF "res_end" \in W.hc.ops THEN res_end_cb(W) ELSE W
        W2 == [W1 EXCEPT !.hc.flags = @ \cup {FS_ENDED}, !.hc.appctx = NULL]
    IN  IF FA_AUTOKILL \in W2.hc.flags
        THEN [W2 EXCEPT !.hc = httpclient_destroy(W2.hc)]
        ELSE W2

httpclient_applet_release_keepctx(W) ==
    LET W1 == [W EXCEPT !.hc.flags = @ \cup {FS_ENDED}]
        W2 == IF "res_end" \in W1.hc.ops THEN res_end_cb(W1) ELSE W1
    IN  IF FA_AUTOKILL \in W2.hc.flags
        THEN [W2 EXCEPT !.hc = httpclient_destroy(W2.hc)]
        ELSE W2

httpclient_applet_release(W) ==
    LET W1 == [W EXCEPT !.hc.flags = @ \cup {FS_ENDED}, !.hc.appctx = NULL]
        W2 == IF "res_end" \in W1.hc.ops THEN res_end_cb(W1) ELSE W1
    IN  IF FA_AUTOKILL \in W2.hc.flags
        THEN [W2 EXCEPT !.hc = httpclient_destroy(W2.hc)]
        ELSE W2

(***************************************************************************)
(* HTX operations of the host library, as this file uses them.             *)
(***************************************************************************)
htx_used(htx) == SumSz(htx.blks)

\* htx_add_data: appends as much of src as fits, to the tail data block when
\* there is one; the result is [htx, ret]
htx_add_data(htx, src) ==
    LET n == Min(Len(src), HtxSize - htx_used(htx))
        part == SubSeq(src, 1, n)
        k == Len(htx.blks)
    IN  IF n <= 0 THEN [htx |-> htx, ret |-> 0]
        ELSE IF k > 0 /\ htx.blks[k].t = "DATA"
        THEN [htx |-> [htx EXCEPT !.blks[k].v = @ \o part], ret |-> n]
        ELSE [htx |-> [htx EXCEPT !.blks = Append(@, Blk("DATA", part))], ret |-> n]

\* htx_add_endof: a one-byte block; fails when the message is full
htx_add_endof(htx, t) ==
    IF htx_used(htx) + 1 > HtxSize THEN [htx |-> htx, ok |-> FALSE]
    ELSE [htx |-> [htx EXCEPT !.blks = Append(@, Blk(t, <<0>>))], ok |-> TRUE]

\* htx_xfer_blks(dst, src, count, HTX_BLK_UNUSED): moves blocks from the head
\* of src to dst while dst has room, a data block in part when it does not
\* fit whole; the result is [dst, src, ret]
RECURSIVE htx_xfer_blks(_, _, _)
htx_xfer_blks(d, s, moved) ==
    IF s.blks = <<>> THEN [dst |-> d, src |-> s, ret |-> moved]
    ELSE LET b == Head(s.blks)
             room == HtxSize - htx_used(d)
         IN  IF htx_get_blksz(b) <= room
             THEN htx_xfer_blks([d EXCEPT !.blks = Append(@, b)],
                                [s EXCEPT !.blks = Tail(@)],
                                moved + htx_get_blksz(b))
             ELSE IF b.t = "DATA" /\ room > 0
             THEN [dst |-> [d EXCEPT !.blks = Append(@, Blk("DATA", SubSeq(b.v, 1, room)))],
                   src |-> [s EXCEPT !.blks[1].v = SubSeq(b.v, room + 1, Len(b.v))],
                   ret |-> moved + room]
             ELSE [dst |-> d, src |-> s, ret |-> moved]

(***************************************************************************)
(* httpclient_req_xfer(hc, src, end).  oom: b_alloc fails.                 *)
(***************************************************************************)
httpclient_req_xfer_noeom(W, src, end, oom) ==
    IF oom /\ ~W.hc.req_buf.alloc THEN [W EXCEPT !.ret = 0]
    ELSE
    LET W1 == IF W.hc.appctx # NULL THEN appctx_wakeup(W) ELSE W
        A == htx_add_data(W1.hc.req_buf.htx, src)
    IN  [W1 EXCEPT !.hc.req_buf.alloc = TRUE, !.ret = A.ret,
                   !.hc.pushed = @ + A.ret,
                   !.hc.req_buf.htx = A.htx]

httpclient_req_xfer_wakefirst(W, src, end, oom) ==
    IF oom /\ ~W.hc.req_buf.alloc
    THEN [(IF W.hc.appctx # NULL THEN appctx_wakeup(W) ELSE W) EXCEPT !.ret = 0]
    ELSE
    LET W1 == IF W.hc.appctx # NULL THEN appctx_wakeup(W) ELSE W
        A == htx_add_data(W1.hc.req_buf.htx, src)
        all == (Len(src) = A.ret) /\ end
        E == IF all /\ htx_is_empty(A.htx)
             THEN htx_add_endof(A.htx, "EOT") ELSE [htx |-> A.htx, ok |-> TRUE]
        W2 == [W1 EXCEPT !.hc.req_buf.alloc = TRUE, !.ret = A.ret,
                         !.hc.pushed = @ + A.ret]
    IN  IF ~E.ok THEN W2
        ELSE [W2 EXCEPT !.hc.req_buf.htx = [E.htx EXCEPT !.eom = @ \/ all]]

httpclient_req_xfer(W, src, end, oom) ==
    IF oom /\ ~W.hc.req_buf.alloc THEN [W EXCEPT !.ret = 0]
    ELSE
    LET W1 == IF W.hc.appctx # NULL THEN appctx_wakeup(W) ELSE W
        A == htx_add_data(W1.hc.req_buf.htx, src)
        all == (Len(src) = A.ret) /\ end
        E == IF all /\ htx_is_empty(A.htx)
             THEN htx_add_endof(A.htx, "EOT") ELSE [htx |-> A.htx, ok |-> TRUE]
        W2 == [W1 EXCEPT !.hc.req_buf.alloc = TRUE, !.ret = A.ret,
                         !.hc.pushed = @ + A.ret]
    IN  IF ~E.ok THEN W2
        ELSE [W2 EXCEPT !.hc.req_buf.htx = [E.htx EXCEPT !.eom = @ \/ all]]

(***************************************************************************)
(* The states of httpclient_applet_io_handler.  Each gives the world after *)
(* the state's code and where control goes: "loop" (break: the top of the  *)
(* while), "more", "process_data" or "end".                                *)
(***************************************************************************)
Ctl(W, to) == [W |-> W, to |-> to]

c_rew(W, n) == [W EXCEPT !.res.output = @ - n]

io_REQ(W) ==
    IF ~W.hc.req_buf.alloc \/ htx_is_empty(W.hc.req_buf.htx) THEN Ctl(W, "more")
    ELSE LET h == W.hc.req_buf.htx
             W1 == [W EXCEPT !.req.htx = h,
                             !.req.output = @ + htx_used(h),
                             !.hc.req_buf = [alloc |-> FALSE, htx |-> EmptyHtx]]
         IN  Ctl([W1 EXCEPT !.ap.st0 = IF h.eom THEN S_RES_STLINE ELSE S_REQ_BODY], "more")

\* the request-body callback of the caller: it pushes pay.n bytes with
\* httpclient_req_xfer, or nothing at all (pay.n < 0)
req_payload_cb(W, pay) ==
    LET W1 == Callback(W, "req_payload")
    IN  IF pay.n < 0 THEN W1
        ELSE httpclient_req_xfer(W1, Range1(W1.hc.pushed + 1, W1.hc.pushed + pay.n),
                                 pay.end, pay.oom)

io_REQ_BODY_eomalways(W, pay) ==
    LET W1 == IF "req_payload" \in W.hc.ops THEN req_payload_cb(W, pay) ELSE W
        hc_htx == W1.hc.req_buf.htx
        htx == W1.req.htx
        X == htx_xfer_blks(htx, hc_htx, 0)
        W2 == IF "req_payload" \notin W.hc.ops THEN W1
              ELSE IF htx_is_empty(htx)
              THEN [W1 EXCEPT !.req.htx = hc_htx,
                              !.req.output = @ + htx_used(hc_htx),
                              !.hc.req_buf.htx = EmptyHtx]
              ELSE [W1 EXCEPT !.req.htx = [X.dst EXCEPT
                                             !.eom = @ \/ X.src.eom],
                              !.req.output = @ + X.ret,
                              !.hc.req_buf.htx = X.src]
        W3 == IF "req_payload" \in W.hc.ops /\ htx_is_empty(W2.hc.req_buf.htx)
              THEN [W2 EXCEPT !.hc.req_buf = [alloc |-> FALSE, htx |-> EmptyHtx]]
              ELSE W2
    IN  IF "req_payload" \in W.hc.ops /\ htx_is_empty(hc_htx) THEN Ctl(W1, "more")
        ELSE IF W3.req.htx.eom
        THEN Ctl([W3 EXCEPT !.req.eoi = TRUE, !.ap.st0 = S_RES_STLINE], "process_data")
        ELSE Ctl(W3, "process_data")

io_REQ_BODY(W, pay) ==
    LET W1 == IF "req_payload" \in W.hc.ops THEN req_payload_cb(W, pay) ELSE W
        hc_htx == W1.hc.req_buf.htx
        htx == W1.req.htx
        X == htx_xfer_blks(htx, hc_htx, 0)
        W2 == IF "req_payload" \notin W.hc.ops THEN W1
              ELSE IF htx_is_empty(htx)
              THEN [W1 EXCEPT !.req.htx = hc_htx,
                              !.req.output = @ + htx_used(hc_htx),
                              !.hc.req_buf.htx = EmptyHtx]
              ELSE [W1 EXCEPT !.req.htx = [X.dst EXCEPT
                                             !.eom = @ \/ (htx_is_empty(X.src) /\ X.src.eom)],
                              !.req.output = @ + X.ret,
                              !.hc.req_buf.htx = X.src]
        W3 == IF "req_payload" \in W.hc.ops /\ htx_is_empty(W2.hc.req_buf.htx)
              THEN [W2 EXCEPT !.hc.req_buf = [alloc |-> FALSE, htx |-> EmptyHtx]]
              ELSE W2
    IN  IF "req_payload" \in W.hc.ops /\ htx_is_empty(hc_htx) THEN Ctl(W1, "more")
        ELSE IF W3.req.htx.eom
        THEN Ctl([W3 EXCEPT !.req.eoi = TRUE, !.ap.st0 = S_RES_STLINE], "process_data")
        ELSE Ctl(W3, "process_data")

io_RES_STLINE_hdr(W) ==
    IF W.res.output = 0 THEN Ctl(W, "more")
    ELSE IF htx_is_empty(W.res.htx) \/ Head(W.res.htx.blks).t # "SL" THEN Ctl(W, "more")
    ELSE LET blk == Head(W.res.htx.blks)
             sl == blk.v[1]
             W1 == c_rew([W EXCEPT !.hc.res_status = sl.status,
                                   !.hc.res_vsn = ist(sl.vsn),
                                   !.hc.res_reason = ist(sl.reason)], htx_get_blksz(blk))
             W2 == [W1 EXCEPT !.res.htx.blks = Tail(@)]
             W3 == IF "res_stline" \in W2.hc.ops THEN Callback(W2, "res_stline") ELSE W2
         IN  Ctl([W3 EXCEPT !.ap.st0 = S_RES_HDR], "loop")

io_RES_STLINE(W) ==
    IF W.res.output = 0 THEN Ctl(W, "more")
    ELSE IF htx_is_empty(W.res.htx) \/ Head(W.res.htx.blks).t # "SL" THEN Ctl(W, "more")
    ELSE LET blk == Head(W.res.htx.blks)
             sl == blk.v[1]
             W1 == c_rew([W EXCEPT !.hc.res_status = sl.status,
                                   !.hc.res_vsn = ist(sl.vsn),
                                   !.hc.res_reason = ist(sl.reason)], htx_get_blksz(blk))
             W2 == [W1 EXCEPT !.res.htx.blks = Tail(@)]
             W3 == IF "res_stline" \in W2.hc.ops THEN Callback(W2, "res_stline") ELSE W2
         IN  Ctl([W3 EXCEPT !.ap.st0 = IF htx_is_empty(W3.res.htx) /\ W3.res.htx.eom
                                        THEN S_RES_END ELSE S_RES_HDR], "loop")

(***************************************************************************)
(* RES_HDR.  hdr_loop is the while (blk) loop over the blocks of the       *)
(* response channel: names are the entries hdrs[0..hdr_num-1] written so   *)
(* far, rew the bytes given to c_rew, oob whether an index at or beyond    *)
(* the capacity of the scratch array was written.  A header is its number; *)
(* the empty name/value pair is 0.                                         *)
(***************************************************************************)
IST_NULL == 0

RECURSIVE hdr_loop(_, _, _, _)
hdr_loop(blks, names, rew, oob) ==
    IF blks = <<>>
    THEN [blks |-> blks, names |-> names, eoh |-> FALSE, rew |-> rew, oob |-> oob]
    ELSE LET blk == Head(blks)
             sz == htx_get_blksz(blk)
             hdr_num == Len(names)
         IN  IF blk.t = "HDR"
             THEN hdr_loop(Tail(blks), Append(names, blk.v[1]), rew + sz,
                           oob \/ hdr_num >= MaxHttpHdr)
             ELSE IF blk.t = "EOH"
             THEN [blks |-> Tail(blks), names |-> names, eoh |-> TRUE, rew |-> rew + sz,
                   oob |-> oob \/ hdr_num >= MaxHttpHdr]
             ELSE hdr_loop(Tail(blks), names, rew + sz, oob)

io_RES_HDR_stay(W, env) ==
    IF W.res.output = 0 THEN Ctl(W, "more")
    ELSE
    LET L == hdr_loop(W.res.htx.blks, <<>>, 0, FALSE)
        hdr_num == Len(L.names)
        oob == L.oob \/ (hdr_num > 0 /\ hdr_num >= MaxHttpHdr)
        W1 == c_rew([W EXCEPT !.res.htx.blks = L.blks, !.hc.oob = @ \/ oob], L.rew)
        last == IF L.eoh THEN IST_NULL ELSE env.g
        W2 == IF hdr_num = 0 THEN W1
              ELSE LET W1a == [W1 EXCEPT !.hc.res_hdrs = L.names \o <<last>>]
                   IN  IF "res_headers" \in W1a.hc.ops
                       THEN Callback(W1a, "res_headers") ELSE W1a
    IN  IF oob /\ env.crash THEN Ctl([W1 EXCEPT !.hc.crashed = TRUE], "crash")
        ELSE IF hdr_num > 0 /\ env.oom_hdrs
        THEN Ctl([W1 EXCEPT !.hc.res_hdrs = <<>>], "end")
        ELSE IF ~L.eoh THEN Ctl(W2, "more")
        ELSE Ctl([W2 EXCEPT !.ap.st0 = IF htx_is_empty(W2.res.htx) /\ W2.res.htx.eom
                                       THEN S_RES_END ELSE S_RES_BODY], "loop")

\* env.g: what the entry of the scratch array that was never written holds;
\* env.oom_hdrs: calloc fails; env.crash: a write beyond the scratch array
\* ends the process
io_RES_HDR(W, env) ==
    IF W.res.output = 0 THEN Ctl(W, "more")
    ELSE
    LET L == hdr_loop(W.res.htx.blks, <<>>, 0, FALSE)
        hdr_num == Len(L.names)
        \* memcpy reads hdr_num + 1 entries of the scratch array
        oob == L.oob \/ (hdr_num > 0 /\ hdr_num >= MaxHttpHdr)
        W1 == c_rew([W EXCEPT !.res.htx.blks = L.blks, !.hc.oob = @ \/ oob], L.rew)
        last == IF L.eoh THEN IST_NULL ELSE env.g
        W2 == IF hdr_num = 0 THEN W1
              ELSE LET W1a == [W1 EXCEPT !.hc.res_hdrs = L.names \o <<last>>]
                   IN  IF "res_headers" \in W1a.hc.ops
                       THEN Callback(W1a, "res_headers") ELSE W1a
    IN  IF oob /\ env.crash THEN Ctl([W1 EXCEPT !.hc.crashed = TRUE], "crash")
        ELSE IF hdr_num > 0 /\ env.oom_hdrs
        THEN Ctl([W1 EXCEPT !.hc.res_hdrs = <<>>], "end")
        ELSE Ctl([W2 EXCEPT !.ap.st0 = IF htx_is_empty(W2.res.htx) /\ W2.res.htx.eom
                                       THEN S_RES_END ELSE S_RES_BODY], "loop")

(***************************************************************************)
(* RES_BODY.  body_loop is the while (blk) loop; it ends with the world    *)
(* and "process_data" when it has to pause, "done" when no block is left.  *)
(***************************************************************************)
RECURSIVE body_loop_nocut(_)
body_loop_nocut(W) ==
    IF W.res.htx.blks = <<>> THEN Ctl(W, "done")
    ELSE
    LET blk == Head(W.res.htx.blks)
        count == W.res.output
        blksz == htx_get_blksz(blk)
        room == BufSize - Len(W.hc.res_buf.data)
        vlen == Min(Min(count, blksz), room)
    IN  IF vlen = 0 THEN Ctl(W, "process_data")
        ELSE IF blk.t = "DATA"
        THEN LET W1 == c_rew([W EXCEPT !.hc.res_buf.data = @ \o SubSeq(blk.v, 1, vlen)], vlen)
                 W2 == IF vlen = blksz
                       THEN [W1 EXCEPT !.res.htx.blks = Tail(@)]
                       ELSE W1
                 W3 == IF "res_payload" \in W2.hc.ops
                       THEN Callback(W2, "res_payload") ELSE W2
             IN  With(W3, LAMBDA V :
                   IF vlen # blksz THEN Ctl(V, "process_data") ELSE body_loop_nocut(V))
        ELSE IF vlen # blksz THEN Ctl(W, "process_data")
        ELSE body_loop_nocut(c_rew([W EXCEPT !.res.htx.blks = Tail(@)], blksz))

RECURSIVE body_loop(_)
body_loop(W) ==
    IF W.res.htx.blks = <<>> THEN Ctl(W, "done")
    ELSE
    LET blk == Head(W.res.htx.blks)
        count == W.res.output
        blksz == htx_get_blksz(blk)
        room == BufSize - Len(W.hc.res_buf.data)
        vlen == Min(Min(count, blksz), room)
    IN  IF vlen = 0 THEN Ctl(W, "process_data")
        ELSE IF blk.t = "DATA"
        THEN LET W1 == c_rew([W EXCEPT !.hc.res_buf.data = @ \o SubSeq(blk.v, 1, vlen)], vlen)
                 W2 == IF vlen = blksz
                       THEN [W1 EXCEPT !.res.htx.blks = Tail(@)]
                       ELSE [W1 EXCEPT !.res.htx.blks[1].v = SubSeq(blk.v, vlen + 1, blksz)]
                 W3 == IF "res_payload" \in W2.hc.ops
                       THEN Callback(W2, "res_payload") ELSE W2
             IN  With(W3, LAMBDA V :
                   IF vlen # blksz THEN Ctl(V, "process_data") ELSE body_loop(V))
        ELSE IF vlen # blksz THEN Ctl(W, "process_data")
        ELSE body_loop(c_rew([W EXCEPT !.res.htx.blks = Tail(@)], blksz))

io_RES_BODY_noeom(W, env) ==
    IF W.res.output = 0 THEN Ctl(W, "more")
    ELSE IF htx_is_empty(W.res.htx) THEN Ctl(W, "more")
    ELSE IF ~W.hc.res_buf.alloc /\ env.oom_buf THEN Ctl(W, "more")
    ELSE LET W1 == [W EXCEPT !.hc.res_buf.alloc = TRUE]
         IN  IF Len(W1.hc.res_buf.data) = BufSize THEN Ctl(W1, "process_data")
             ELSE With(body_loop(W1), LAMBDA B :
                    IF B.to = "process_data" THEN B
                    ELSE IF ~htx_is_empty(B.W.res.htx)
                    THEN Ctl(B.W, "more")
                    ELSE Ctl([B.W EXCEPT !.ap.st0 = S_RES_END], "loop"))

\* env.oom_buf: b_alloc of hc->res.buf fails
io_RES_BODY(W, env) ==
    IF W.res.output = 0 THEN Ctl(W, "more")
    ELSE IF htx_is_empty(W.res.htx) THEN Ctl(W, "more")
    ELSE IF ~W.hc.res_buf.alloc /\ env.oom_buf THEN Ctl(W, "more")
    ELSE LET W1 == [W EXCEPT !.hc.res_buf.alloc = TRUE]
         IN  IF Len(W1.hc.res_buf.data) = BufSize THEN Ctl(W1, "process_data")
             ELSE With(body_loop(W1), LAMBDA B :
                    IF B.to = "process_data" THEN B
                    ELSE IF ~(htx_is_empty(B.W.res.htx) /\ B.W.res.htx.eom)
                    THEN Ctl(B.W, "more")
                    ELSE Ctl([B.W EXCEPT !.ap.st0 = S_RES_END], "loop"))

(***************************************************************************)
(* httpclient_applet_io_handler: one call by the host.  The while (1) loop *)
(* tests STOP at the top of every iteration; the labels more and end close *)
(* the call.  "end" shuts both directions of the stream (ap.shut).         *)
(***************************************************************************)
io_end(W) == [W EXCEPT !.ap.shut = TRUE]

\* !(co_data(c) | c->pipe)
channel_is_empty(c) == c.output = 0

io_more_noclose(W) ==
    IF W.ap.st0 = S_RES_END THEN io_end(W)
    ELSE W

io_more(W) ==
    IF W.ap.st0 = S_RES_END THEN io_end(W)
    ELSE IF W.req.shut \/ W.res.shut \/ (W.res.shutw_now /\ channel_is_empty(W.res))
    THEN io_end(W)
    ELSE W

io_state_noend(W, env) ==
    CASE W.ap.st0 = S_REQ -> io_REQ(W)
      [] W.ap.st0 = S_REQ_BODY -> io_REQ_BODY(W, env.pay)
      [] W.ap.st0 = S_RES_STLINE -> io_RES_STLINE(W)
      [] W.ap.st0 = S_RES_HDR -> io_RES_HDR(W, env)
      [] W.ap.st0 = S_RES_BODY -> io_RES_BODY(W, env)
      [] W.ap.st0 = S_RES_END -> Ctl(W, "process_data")

io_state(W, env) ==
    CASE W.ap.st0 = S_REQ -> io_REQ(W)
      [] W.ap.st0 = S_REQ_BODY -> io_REQ_BODY(W, env.pay)
      [] W.ap.st0 = S_RES_STLINE -> io_RES_STLINE(W)
      [] W.ap.st0 = S_RES_HDR -> io_RES_HDR(W, env)
      [] W.ap.st0 = S_RES_BODY -> io_RES_BODY(W, env)
      [] W.ap.st0 = S_RES_END -> Ctl(W, "end")

RECURSIVE io_loop(_, _)
io_loop(W, env) ==
    IF FA_STOP \in W.hc.flags THEN io_end(W)
    ELSE With(io_state(W, env), LAMBDA C :
           CASE C.to = "loop" -> io_loop(C.W, env)
             [] C.to = "more" -> io_more(C.W)
             [] C.to = "end" -> io_end(C.W)
             [] OTHER -> C.W)

httpclient_applet_io_handler(W, env) ==
    With([W EXCEPT !.ap.woken = FALSE], LAMBDA V : io_loop(V, env))

(***************************************************************************)
(* b_force_xfer(dst, src, count) of the buffer library: moves count bytes, *)
(* or the bytes src holds when they are fewer, from the head of src to the *)
(* tail of dst; the caller has to keep count within the room of dst.       *)
(***************************************************************************)
b_force_xfer(d, s, count) ==
    LET n == Min(count, Len(s))
    IN  [dst |-> d \o SubSeq(s, 1, n), src |-> SubSeq(s, n + 1, Len(s)), ret |-> n]

b_room(d) == DstSize - Len(d)

(***************************************************************************)
(* httpclient_res_xfer(hc, dst): the result is the world and the buffer.   *)
(***************************************************************************)
httpclient_res_xfer_noroom(W, d) ==
    LET X == b_force_xfer(d, W.hc.res_buf.data, Len(W.hc.res_buf.data))
        W1 == [W EXCEPT !.hc.res_buf.data = X.src, !.ret = X.ret]
        W2 == IF X.src = <<>>
              THEN LET W1a == [W1 EXCEPT !.hc.res_buf = NoBuf]
                   IN  IF W1a.hc.appctx # NULL THEN appctx_wakeup(W1a) ELSE W1a
              ELSE W1
    IN  [W |-> W2, dst |-> X.dst]

httpclient_res_xfer_nowake(W, d) ==
    LET room == b_room(d)
        X == b_force_xfer(d, W.hc.res_buf.data, Min(room, Len(W.hc.res_buf.data)))
        W1 == [W EXCEPT !.hc.res_buf.data = X.src, !.ret = X.ret]
        W2 == IF X.src = <<>>
              THEN LET W1a == [W1 EXCEPT !.hc.res_buf = NoBuf]
                   IN  W1a
              ELSE W1
    IN  [W |-> W2, dst |-> X.dst]

httpclient_res_xfer(W, d) ==
    LET room == b_room(d)
        X == b_force_xfer(d, W.hc.res_buf.data, Min(room, Len(W.hc.res_buf.data)))
        W1 == [W EXCEPT !.hc.res_buf.data = X.src, !.ret = X.ret]
        W2 == IF X.src = <<>>
              THEN LET W1a == [W1 EXCEPT !.hc.res_buf = NoBuf]
                   IN  IF W1a.hc.appctx # NULL THEN appctx_wakeup(W1a) ELSE W1a
              ELSE W1
    IN  [W |-> W2, dst |-> X.dst]

(***************************************************************************)
(* The initial state: no client yet.                                       *)
(***************************************************************************)
Idle == [s |-> "idle", r |-> "idle", sflags |-> {}, rflags |-> {}]

Init ==
    /\ hc = NoClient
    /\ ap = NoApplet
    /\ res = NoChannel
    /\ req = NoChannel
    /\ wire = NoWire
    /\ tasks = 0
    /\ call = NoCall
    /\ cref = FALSE
    /\ mt = Idle
    /\ xfer_sock_list = NULL
    /\ xfer_mem = <<>>
    /\ Unbound

\* the process runs: no BUG_ON fired, no crash
Running == ~hc.bug /\ ~hc.crashed

\* the caller may use its pointer
CanCall == Running /\ cref /\ hc.alloc = "live"

(***************************************************************************)
(* The caller's API calls.                                                 *)
(***************************************************************************)
New ==
    /\ Running
    /\ hc.alloc = "none"
    /\ \E oom \in BOOLEAN, ops \in OpsChoices :
         /\ \E W \in {httpclient_new(World, oom, ops)} : Commit(W)
         /\ cref' = ~oom
         /\ call' = Call("new", IF oom THEN NULL ELSE 1)
    /\ UNCHANGED <<wire, mt>>
    /\ UNCHANGED socks

\* what can happen to a start: all is well (http, or https with the TLS
\* server), https without the TLS server, or one of the failures
InitEnv(url, ssl, oom, nostream) ==
    [url |-> url, g |-> "x", srv_ssl |-> ssl, oom |-> oom, nostream |-> nostream,
     https |-> httpclient_spliturl(url, "x").scheme = SCH_HTTPS]

StartEnv(https, ssl, oom, nostream) ==
    InitEnv((IF https THEN HttpsPrefix ELSE HttpPrefix) \o <<"a">>, ssl, oom, nostream)

StartEnvs ==
    { StartEnv(FALSE, FALSE, FALSE, FALSE), StartEnv(TRUE, TRUE, FALSE, FALSE),
      StartEnv(TRUE, FALSE, FALSE, FALSE), StartEnv(FALSE, TRUE, TRUE, FALSE),
      StartEnv(FALSE, TRUE, FALSE, TRUE) }

\* nothing of an earlier response is left in the client
Pristine == hc.res_status = 0 /\ hc.res_hdrs = <<>> /\ ~hc.res_buf.alloc

\* the start finds the client running
Refused == httpclient_started(hc) /\ ~httpclient_ended(hc)

\* what the start meets, where it can matter: appctx_new fails (newok is
\* false), or httpclient_applet_init meets env
StartInputs ==
    IF Refused THEN {[newok |-> TRUE, env |-> StartEnv(FALSE, FALSE, FALSE, FALSE)]}
    ELSE {[newok |-> FALSE, env |-> StartEnv(FALSE, FALSE, FALSE, FALSE)]}
         \cup [newok : {TRUE}, env : StartEnvs]

\* a client that has ended is started again only when it is pristine
Start ==
    /\ CanCall
    /\ httpclient_ended(hc) => Pristine
    /\ \E in \in StartInputs :
         \E W \in {httpclient_start(World, APPCTX, in.newok, in.env)} :
             /\ Commit(W)
             /\ call' = [Call("start", W.ret) EXCEPT
                          !.arg = [env |-> in.env, newok |-> in.newok, refused |-> Refused],
                          !.dout = W.strm]
             /\ wire' = IF W.ret # NULL THEN WireStart ELSE wire
    /\ UNCHANGED <<cref, mt>>
    /\ UNCHANGED socks

StopAndDestroy ==
    /\ CanCall
    /\ \E W \in {httpclient_stop_and_destroy(World)} : Commit(W)
    /\ call' = Call("stop_and_destroy", 0)
    /\ cref' = FALSE
    /\ UNCHANGED <<wire, mt>>
    /\ UNCHANGED socks

\* the bytes (0) of earlier output the caller's destination buffer holds,
\* where their number can matter
Fills == IF hc.res_buf.data = <<>> THEN {0} ELSE 0..DstSize

ResXfer ==
    /\ CanCall
    /\ \E fill \in Fills :
         \E din \in {[i \in 1..fill |-> 0]} :
           \E X \in {httpclient_res_xfer(World, din)} :
             /\ Commit(X.W)
             /\ call' = [op |-> "res_xfer", v |-> X.W.ret, arg |-> din, dout |-> X.dst,
                         bin |-> hc.res_buf.data]
    /\ UNCHANGED <<wire, cref, mt>>
    /\ UNCHANGED socks

(***************************************************************************)
(* The host: it runs the woken task, feeds the response channel block by   *)
(* block, empties the request channel, may shut the transport while the   *)
(* task has not shut the stream itself, and runs the exit hook once the    *)
(* stream is shut.                                                         *)
(***************************************************************************)
PayChoices ==
    IF ap.st0 = S_REQ_BODY /\ "req_payload" \in hc.ops
    THEN [n : -1..(MaxReqBytes - hc.pushed), end : BOOLEAN, oom : {FALSE, ~hc.req_buf.alloc}]
    ELSE {[n |-> -1, end |-> FALSE, oom |-> FALSE]}

\* the header blocks the response channel holds, and whether it holds the
\* end-of-headers block
HdrsWaiting == Cardinality({i \in 1..Len(res.htx.blks) : res.htx.blks[i].t = "HDR"})

EohWaiting == \E i \in 1..Len(res.htx.blks) : res.htx.blks[i].t = "EOH"

InHdr == ap.st0 \in {S_RES_STLINE, S_RES_HDR}

\* what the call meets, where it can matter: calloc of the headers fails, the
\* write beyond the scratch array ends the process, the unwritten entry of
\* the scratch array is not null, b_alloc of hc->res.buf fails
IoEnvsFor(pays) ==
    [pay : pays,
     oom_hdrs : {FALSE, InHdr /\ HdrsWaiting > 0},
     crash : {FALSE, InHdr /\ HdrsWaiting >= MaxHttpHdr},
     g : {IST_NULL} \cup (IF InHdr /\ HdrsWaiting > 0 /\ ~EohWaiting THEN {-1} ELSE {}),
     oom_buf : {FALSE, StateRank(ap.st0) >= StateRank(S_RES_STLINE) /\ ~hc.res_buf.alloc}]

IoEnvs == IoEnvsFor(PayChoices)

IoHandler ==
    /\ Running
    /\ ap.alive /\ ap.woken /\ ~ap.shut
    /\ call' = NoCall
    /\ UNCHANGED <<wire, cref, mt>>
    /\ UNCHANGED socks
    /\ \E env \in IoEnvs :
         \E W \in {httpclient_applet_io_handler(World, env)} : Commit(W)

\* the host runs the exit hook, then frees the applet and its stream
release(W) ==
    LET R == httpclient_applet_release(W)
    IN  [R EXCEPT !.ap = [NoApplet EXCEPT !.id = R.ap.id, !.cbs = R.ap.cbs,
                                          !.end = R.ap.end],
                  !.tasks = @ - 1,
                  !.res = NoChannel, !.req = NoChannel]

Release ==
    /\ Running
    /\ ap.alive /\ (ap.shut \/ res.shut)
    /\ call' = NoCall
    /\ wire' = NoWire
    /\ UNCHANGED <<cref, mt>>
    /\ UNCHANGED socks
    /\ \E W \in {release(World)} : Commit(W)

\* the peer answers once the request is complete and was sent to it
HostDeliver ==
    /\ Running
    /\ ap.alive /\ ~ap.shut /\ ~res.shut
    /\ StateRank(ap.st0) >= StateRank(S_RES_STLINE)
    /\ req.htx.blks = <<>>
    /\ \E n \in WireNext(wire) :
         /\ wire' = n.wire
         /\ res' = [res EXCEPT !.htx.blks = Append(@, n.blk),
                               !.htx.eom = n.eom,
                               !.output = @ + htx_get_blksz(n.blk)]
    /\ ap' = [ap EXCEPT !.woken = TRUE]
    /\ call' = NoCall
    /\ UNCHANGED <<hc, req, tasks, cref, mt>>
    /\ UNCHANGED socks

HostSend ==
    /\ Running
    /\ ap.alive /\ ~ap.shut
    /\ req.htx.blks # <<>>
    /\ req' = [req EXCEPT !.htx.blks = <<>>, !.output = 0]
    /\ ap' = [ap EXCEPT !.woken = TRUE]
    /\ call' = NoCall
    /\ UNCHANGED <<hc, res, wire, tasks, cref, mt>>
    /\ UNCHANGED socks

HostShut ==
    /\ Running
    /\ ap.alive /\ ~ap.shut /\ ~res.shut
    /\ res' = [res EXCEPT !.shut = TRUE]
    /\ ap' = [ap EXCEPT !.woken = TRUE]
    /\ call' = NoCall
    /\ UNCHANGED <<hc, req, wire, tasks, cref, mt>>
    /\ UNCHANGED socks

HostWake ==
    /\ Running
    /\ ap.alive /\ ~ap.woken /\ ~ap.shut
    /\ ap' = [ap EXCEPT !.woken = TRUE]
    /\ call' = NoCall
    /\ UNCHANGED <<hc, res, req, wire, tasks, cref, mt>>
    /\ UNCHANGED socks

Next ==
    \/ New
    \/ Start
    \/ StopAndDestroy
    \/ ResXfer
    \/ IoHandler
    \/ Release
    \/ HostDeliver
    \/ HostSend
    \/ HostShut
    \/ HostWake

Spec == Init /\ [][Next]_vars

(***************************************************************************)
(* The host under its scheduling: a woken task is run, and the exit hook   *)
(* of a task whose stream is shut is run.                                  *)
(***************************************************************************)
SpecFair == Spec /\ WF_vars(IoHandler) /\ WF_vars(Release)

(***************************************************************************)
(* Two threads on one running client: one calls                            *)
(* httpclient_stop_and_destroy, the other is the host running              *)
(* httpclient_applet_release for the task that has shut its stream.  The   *)
(* fields are plain memory, so each read and each write of hc is a step    *)
(* (hc->flags |= x is a read, then a write).  A read of freed memory gives *)
(* what was there or zero; hc.uaf records an access to the freed client.   *)
(***************************************************************************)
MtInit ==
    /\ \E ops \in OpsChoices, woken \in BOOLEAN :
         /\ hc = [NoClient EXCEPT !.alloc = "live", !.caller = TRUE, !.ops = ops,
                                  !.flags = {FS_STARTED}, !.appctx = APPCTX]
         /\ ap = [NoApplet EXCEPT !.id = APPCTX, !.alive = TRUE, !.shut = TRUE,
                                  !.woken = woken,
                                  !.st0 = IF "req_payload" \in ops
                                          THEN S_REQ_BODY ELSE S_RES_STLINE]
    /\ res = NoChannel
    /\ req = NoChannel
    /\ wire = WireStart
    /\ tasks = 1
    /\ call = NoCall
    /\ cref = TRUE
    /\ mt = [s |-> "test", r |-> "ended_rd", sflags |-> {}, rflags |-> {}]
    /\ xfer_sock_list = NULL
    /\ xfer_mem = <<>>
    /\ Unbound

\* what a read of hc->flags can give
MtFlags == IF hc.alloc = "freed" THEN {hc.flags, {}} ELSE {hc.flags}

\* what a read of hc->appctx can give
MtAppctx == IF hc.alloc = "freed" THEN {hc.appctx, NULL} ELSE {hc.appctx}

\* the client after an access to it
Touch(h) == [h EXCEPT !.uaf = @ \/ hc.alloc = "freed"]

\* the steps of httpclient_stop_and_destroy
StopStep ==
    /\ ~hc.bug
    /\ mt.s \notin {"idle", "done"}
    /\ CASE mt.s = "test" ->
              \E f \in MtFlags :
                 /\ mt' = [mt EXCEPT !.s = IF FS_ENDED \in f \/ FS_STARTED \notin f
                                           THEN "destroy" ELSE "flags_rd"]
                 /\ hc' = Touch(hc)
                 /\ UNCHANGED <<ap, cref>>
         [] mt.s = "destroy" ->
              /\ hc' = Touch(httpclient_destroy(hc))
              /\ mt' = [mt EXCEPT !.s = "done"]
              /\ cref' = FALSE
              /\ UNCHANGED ap
         [] mt.s = "flags_rd" ->
              \E f \in MtFlags :
                 /\ mt' = [mt EXCEPT !.s = "flags_wr", !.sflags = f]
                 /\ hc' = Touch(hc)
                 /\ UNCHANGED <<ap, cref>>
         [] mt.s = "flags_wr" ->
              /\ hc' = [Touch(hc) EXCEPT !.flags = mt.sflags \cup {FA_AUTOKILL, FA_STOP}]
              /\ mt' = [mt EXCEPT !.s = "caller"]
              /\ UNCHANGED <<ap, cref>>
         [] mt.s = "caller" ->
              /\ hc' = [Touch(hc) EXCEPT !.caller = FALSE]
              /\ mt' = [mt EXCEPT !.s = "appctx"]
              /\ UNCHANGED <<ap, cref>>
         [] mt.s = "appctx" ->
              \E a \in MtAppctx :
                 /\ mt' = [mt EXCEPT !.s = IF a # NULL THEN "wake" ELSE "done"]
                 /\ hc' = Touch(hc)
                 /\ cref' = (a # NULL)
                 /\ UNCHANGED ap
         [] mt.s = "wake" ->
              /\ ap' = [ap EXCEPT !.woken = TRUE]
              /\ mt' = [mt EXCEPT !.s = "done"]
              /\ cref' = FALSE
              /\ UNCHANGED hc
    /\ UNCHANGED <<res, req, wire, tasks, call>>
    /\ UNCHANGED socks

\* the steps of httpclient_applet_release; the host frees the applet after it
ReleaseStep ==
    /\ ~hc.bug
    /\ mt.r \notin {"idle", "done"}
    /\ CASE mt.r = "ended_rd" ->
              \E f \in MtFlags :
                 /\ mt' = [mt EXCEPT !.r = "ended_wr", !.rflags = f]
                 /\ hc' = Touch(hc)
                 /\ UNCHANGED <<ap, tasks>>
         [] mt.r = "ended_wr" ->
              /\ hc' = [Touch(hc) EXCEPT !.flags = mt.rflags \cup {FS_ENDED}]
              /\ mt' = [mt EXCEPT !.r = "appctx"]
              /\ UNCHANGED <<ap, tasks>>
         [] mt.r = "appctx" ->
              /\ hc' = [Touch(hc) EXCEPT !.appctx = NULL]
              /\ mt' = [mt EXCEPT !.r = "res_end"]
              /\ UNCHANGED <<ap, tasks>>
         [] mt.r = "res_end" ->
              /\ hc' = Touch(hc)
              /\ ap' = IF "res_end" \in hc.ops THEN Callback(World, "res_end").ap ELSE ap
              /\ mt' = [mt EXCEPT !.r = "kill_test"]
              /\ UNCHANGED tasks
         [] mt.r = "kill_test" ->
              \E f \in MtFlags :
                 /\ mt' = [mt EXCEPT !.r = IF FA_AUTOKILL \in f THEN "destroy" ELSE "free"]
                 /\ hc' = Touch(hc)
                 /\ UNCHANGED <<ap, tasks>>
         [] mt.r = "destroy" ->
              /\ hc' = Touch(httpclient_destroy(hc))
              /\ mt' = [mt EXCEPT !.r = "free"]
              /\ UNCHANGED <<ap, tasks>>
         [] mt.r = "free" ->
              /\ ap' = [ap EXCEPT !.alive = FALSE]
              /\ tasks' = tasks - 1
              /\ mt' = [mt EXCEPT !.r = "done"]
              /\ UNCHANGED hc
    /\ UNCHANGED <<res, req, wire, call, cref>>
    /\ UNCHANGED socks

MtNext == StopStep \/ ReleaseStep

SpecMT == MtInit /\ [][MtNext]_vars

(***************************************************************************)
(* Properties.                                                             *)
(***************************************************************************)
\* occurrences of x in seq
Count(seq, x) == Cardinality({i \in 1..Len(seq) : seq[i] = x})

\* the place of a callback in the order of a transfer
CbRank(n) ==
    CASE n = "req_payload" -> 0
      [] n = "res_stline" -> 1
      [] n = "res_headers" -> 2
      [] n = "res_payload" -> 3
      [] n = "res_end" -> 4

\* a start that reached httpclient_applet_init and met a target error there
TargetError(env) == env.oom \/ (env.https /\ ~env.srv_ssl)

InitFailedOnTarget ==
    /\ call.op = "start"
    /\ ~call.arg.refused
    /\ call.arg.newok
    /\ TargetError(call.arg.env)

\* C1: httpclient_destroy is entered only for a client that has ENDED set or
\* has STARTED clear, whoever calls it; the BUG_ON of started-and-not-ended
\* never fires.
C1_DestroyOnlyEndedOrNeverStarted ==
    /\ hc.destroys > 0 => (FS_ENDED \in hc.dflags \/ FS_STARTED \notin hc.dflags)
    /\ ~hc.bug

C1_Witness ==
    /\ hc.alloc = "freed"
    /\ {FS_STARTED, FS_ENDED} \subseteq hc.dflags

\* C2: once stop-and-destroy was called on a client that was running (the
\* stop is pending: STOP is set on the live client), the client is
\* eventually destroyed, by the exit hook of its task (it enters destroy
\* with ENDED and AUTOKILL), and it is never destroyed more than once.
C2_StopLeadsToOneDestroy ==
    /\ [](hc.destroys <= 1)
    /\ (hc.alloc = "live" /\ FA_STOP \in hc.flags)
         ~> (hc.alloc = "freed" /\ hc.destroys = 1
             /\ {FS_ENDED, FA_AUTOKILL} \subseteq hc.dflags)

C2_Witness ==
    /\ hc.alloc = "freed"
    /\ hc.destroys = 1
    /\ FA_STOP \in hc.dflags
    /\ ~ap.alive

\* C3: when stop-and-destroy runs on one thread while the exit hook of the
\* task runs on another, the client is still destroyed exactly once, and no
\* field of it is read or written after it was destroyed.
C3_CrossThreadStopDestroysOnce ==
    /\ ~hc.uaf
    /\ ~hc.bug
    /\ hc.destroys <= 1
    /\ (mt.s = "done" /\ mt.r = "done") => hc.destroys = 1

\* C4: a task calls the on-end callback (when one is installed) exactly
\* once: not while it lives, and once when it has exited, however it exited.
C4_OnEndExactlyOnce ==
    /\ Count(ap.cbs, "res_end") <= 1
    /\ ap.alive => Count(ap.cbs, "res_end") = 0
    /\ (ap.id # NULL /\ ~ap.alive /\ "res_end" \in hc.ops) => Count(ap.cbs, "res_end") = 1

\* the task was stopped before a byte of the response was read
C4_Witness ==
    /\ ap.id # NULL /\ ~ap.alive
    /\ FA_STOP \in hc.dflags
    /\ hc.res_status = 0
    /\ ap.cbs = <<"res_end">>

\* C5: the callbacks of one task come in order: the status line at most
\* once and before the headers, the headers at most once and before any body
\* chunk, every body chunk before on-end, and on-end last.
C5_CallbackOrder ==
    /\ \A i, j \in 1..Len(ap.cbs) :
         i < j => /\ CbRank(ap.cbs[i]) <= CbRank(ap.cbs[j])
                  /\ ap.cbs[i] = ap.cbs[j] => ap.cbs[i] = "res_payload"
    /\ Count(ap.cbs, "res_end") > 0 => ap.cbs[Len(ap.cbs)] = "res_end"

C5_Witness ==
    ap.cbs = <<"req_payload", "res_stline", "res_headers", "res_payload", "res_payload",
               "res_end">>

\* C6: start on a client that is STARTED and not ENDED returns NULL, creates
\* no task and changes nothing of the client; a client never has more than
\* one task.
C6_StartRefusedWhileRunning ==
    /\ tasks <= 1
    /\ Refused =>
         \A in \in [newok : BOOLEAN, env : StartEnvs] :
            httpclient_start(World, APPCTX, in.newok, in.env) = World
    /\ (call.op = "start" /\ call.arg.refused) => (call.v = NULL /\ Refused /\ tasks = 1)

C6_Witness ==
    /\ call.op = "start"
    /\ call.arg.refused
    /\ call.v = NULL
    /\ hc.appctx = APPCTX

C8_HeadersEndWithSentinel ==
    hc.res_hdrs # <<>> =>
        /\ Len(hc.res_hdrs) >= 2
        /\ hc.res_hdrs[Len(hc.res_hdrs)] = IST_NULL

\* C9: the scratch array of RES_HDR is never written at or beyond its
\* capacity.
C9_ScratchArrayNeverOverrun == ~hc.oob /\ ~hc.crashed

\* C10: httpclient_res_xfer moves n = min(room of dst, bytes of hc->res.buf)
\* bytes: dst gets the first n bytes appended in order, hc->res.buf keeps
\* the rest in order, and n is returned; nothing moves when dst has no room
\* or hc->res.buf is empty.
C10_ResXferMovesWhatFits ==
    call.op = "res_xfer" =>
        LET n == Min(DstSize - Len(call.arg), Len(call.bin))
        IN  /\ call.v = n
            /\ call.dout = call.arg \o SubSeq(call.bin, 1, n)
            /\ hc.res_buf.data = SubSeq(call.bin, n + 1, Len(call.bin))
            /\ Len(call.dout) <= DstSize
            /\ (Len(call.arg) = DstSize \/ call.bin = <<>>) =>
                  (call.v = 0 /\ call.dout = call.arg /\ hc.res_buf.data = call.bin)

\* one byte fits, the buffer holds more: the first is moved, the rest stays
C10_Witness ==
    /\ call.op = "res_xfer"
    /\ call.v = 1
    /\ Len(call.bin) > 1
    /\ hc.res_buf.data = Tail(call.bin)

\* the payload bytes an HTX message holds, in order
RECURSIVE HtxBytes(_)
HtxBytes(blks) ==
    IF blks = <<>> THEN <<>>
    ELSE (IF Head(blks).t = "DATA" THEN Head(blks).v ELSE <<>>) \o HtxBytes(Tail(blks))

\* the payloads a caller can hand to httpclient_req_xfer
ReqSrcs == { Range1(hc.pushed + 1, hc.pushed + n) : n \in 0..(HtxSize + 1) }

\* C11: httpclient_req_xfer(hc, src, end) returns n with 0 <= n <= len(src)
\* and appends exactly the first n bytes of src to hc->req.buf; it marks
\* end-of-message if and only if n = len(src) and end is set; and a message
\* it marks is not empty.
C11_ReqXferContract ==
    (hc.alloc = "live" /\ ~hc.req_buf.htx.eom) =>
        \A src \in ReqSrcs, end \in BOOLEAN, oom \in BOOLEAN :
           LET R == httpclient_req_xfer(World, src, end, oom)
               after == R.hc.req_buf.htx
               n == R.ret
           IN  /\ 0 <= n /\ n <= Len(src)
               /\ HtxBytes(after.blks) = HtxBytes(hc.req_buf.htx.blks) \o SubSeq(src, 1, n)
               /\ after.eom <=> (n = Len(src) /\ end)
               /\ after.eom => after.blks # <<>>

(***************************************************************************)
(* A caller that streams a request body of BodyLen bytes, more than the    *)
(* HTX message of hc->req.buf can take at once: at every call of its       *)
(* hc->ops.req_payload it hands what is left of the body to                *)
(* httpclient_req_xfer with end set, and nothing once all was taken.  The  *)
(* client was started with the head of the request in hc->req.buf, which   *)
(* the stream took over (lines 1003, 1035-1038).                           *)
(***************************************************************************)
BodyLen == HtxSize + 1

ReqHead == [blks |-> <<Blk("SL", <<0>>)>>, eom |-> FALSE]

BodyPay ==
    IF ap.st0 = S_REQ_BODY /\ hc.pushed < BodyLen
    THEN [n |-> BodyLen - hc.pushed, end |-> TRUE, oom |-> FALSE]
    ELSE [n |-> -1, end |-> FALSE, oom |-> FALSE]

BodyInit ==
    /\ \E W0 \in {httpclient_new([hc |-> NoClient, ap |-> NoApplet, res |-> NoChannel,
                                  req |-> NoChannel, tasks |-> 0, ret |-> 0,
                                  strm |-> NoStrm],
                                 FALSE, AllOps)} :
         \E W \in {httpclient_start([W0 EXCEPT !.hc.req_buf = [alloc |-> TRUE, htx |-> ReqHead]],
                                    APPCTX, TRUE, StartEnv(FALSE, FALSE, FALSE, FALSE))} :
            /\ hc = W.hc
            /\ ap = W.ap
            /\ res = W.res
            /\ req = W.req
            /\ tasks = W.tasks
    /\ wire = WireStart
    /\ call = NoCall
    /\ cref = TRUE
    /\ mt = Idle
    /\ xfer_sock_list = NULL
    /\ xfer_mem = <<>>
    /\ Unbound

BodyIo ==
    /\ Running
    /\ ap.alive /\ ap.woken /\ ~ap.shut
    /\ call' = NoCall
    /\ UNCHANGED <<wire, cref, mt>>
    /\ UNCHANGED socks
    /\ \E env \in IoEnvsFor({BodyPay}) :
         \E W \in {httpclient_applet_io_handler(World, env)} : Commit(W)

BodyNext ==
    \/ BodyIo
    \/ HostSend
    \/ HostWake
    \/ HostDeliver
    \/ HostShut
    \/ ResXfer
    \/ StopAndDestroy
    \/ Release

\* the host runs a woken task and the transport sends what the request
\* channel holds
SpecBody == BodyInit /\ [][BodyNext]_vars /\ WF_vars(BodyIo) /\ WF_vars(HostSend)

\* the request was marked as complete
ReqEom == hc.req_buf.htx.eom \/ req.htx.eom \/ req.eoi

\* the task no longer moves the request: stopped, shut or gone
ReqAbandoned == ~Running \/ ~ap.alive \/ ap.shut \/ res.shut \/ FA_STOP \in hc.flags

\* C12: a payload longer than the room left in hc->req.buf is taken in part
\* (the count returned is below its length) and the message is not marked as
\* complete; and when the caller hands the rest with end set at the later
\* calls of its callback while the task moves the buffer to the transport,
\* the request is eventually marked as complete.
C12_BackpressureThenEom ==
    /\ [](hc.alloc = "live" =>
            \A src \in ReqSrcs :
               Len(src) > HtxSize - htx_used(hc.req_buf.htx) =>
                  LET R == httpclient_req_xfer(World, src, TRUE, FALSE)
                  IN  R.ret < Len(src) /\ (R.hc.req_buf.htx.eom <=> hc.req_buf.htx.eom))
    /\ ((ap.alive /\ ap.st0 = S_REQ_BODY /\ hc.pushed < BodyLen) ~> (ReqEom \/ ReqAbandoned))

\* the body went in two parts and the request is complete
C12_Witness ==
    /\ hc.pushed = BodyLen
    /\ req.eoi
    /\ ~ReqAbandoned

(***************************************************************************)
(* httpclient_req_gen(hc, url, meth, hdrs, payload).  A header is [n, v];  *)
(* an ist without a pointer (isttest is 0) differs from the empty string;  *)
(* the array of headers ends at the first empty name.                      *)
(* env.oom: b_alloc fails; env.cap: the bytes the HTX message of           *)
(* hc->req.buf can take, every block but data counting for one;            *)
(* env.upd_ok: http_update_host succeeds.  url is [auth]: its authority.   *)
(***************************************************************************)
HTTP_METH_GET == 1

HTTP_METH_OTHER == 8

ERR_ALERT_ABORT == 20

HTTPCLIENT_USERAGENT == "HAProxy"


\* the lower case of the header names in use
tolower(n) ==
    CASE n = "hOsT" -> "host"
      [] n = "ACCEPT" -> "accept"
      [] n = "User-Agent" -> "user-agent"
      [] n = "Host" -> "host"
      [] n = "Accept" -> "accept"
      [] OTHER -> n

\* a case-sensitive comparison
isteq(a, b) == a = b

isteqi(a, b) == tolower(a) = tolower(b)

Hdr(n, v) == [n |-> n, v |-> v]

\* htx_add_stline, htx_add_header, htx_add_endof, htx_add_data_atonce: the
\* block is added whole or not at all
htx_add_blk(htx, cap, blk) ==
    IF htx_used(htx) + htx_get_blksz(blk) > cap THEN [htx |-> htx, ok |-> FALSE]
    ELSE [htx |-> [htx EXCEPT !.blks = Append(@, blk)], ok |-> TRUE]

\* the for loop over hdrs (lines 317-331); found is the set of the default
\* headers seen
RECURSIVE gen_hdrs(_, _, _, _)
gen_hdrs(htx, cap, hdrs, found) ==
    IF hdrs = <<>> \/ Head(hdrs).n = "" THEN [htx |-> htx, ok |-> TRUE, found |-> found]
    ELSE LET h == Head(hdrs)
             f == IF isteqi(h.n, "host") THEN found \cup {"host"}
                  ELSE IF isteqi(h.n, "accept") THEN found \cup {"accept"}
                  ELSE IF isteqi(h.n, "user-agent") THEN found \cup {"user-agent"}
                  ELSE found
             A == htx_add_blk(htx, cap, Blk("HDR", <<h>>))
         IN  IF ~isttest(h.v) THEN gen_hdrs(htx, cap, Tail(hdrs), found)
             ELSE IF ~A.ok THEN [htx |-> A.htx, ok |-> FALSE, found |-> f]
             ELSE gen_hdrs(A.htx, cap, Tail(hdrs), f)

\* http_update_host: the value of every Host header becomes the authority
http_update_host(htx, url) ==
    [htx EXCEPT !.blks = [i \in 1..Len(@) |->
        IF @[i].t = "HDR" /\ isteqi(@[i].v[1].n, "host")
        THEN Blk("HDR", <<Hdr(@[i].v[1].n, ist(url.auth))>>) ELSE @[i]]]

\* one default header (lines 333-349)
gen_default(R, cap, missing, blk) ==
    IF ~R.ok \/ ~missing THEN R
    ELSE htx_add_blk(R.htx, cap, blk)

gen_fail(W, htx) ==
    [W EXCEPT !.hc.req_buf = [alloc |-> TRUE, htx |-> htx], !.ret = ERR_ALERT_ABORT]

\* the end of the function (lines 361-366): HTX_FL_EOM unless the caller
\* streams the body
gen_done_eom(W, htx) ==
    [W EXCEPT !.hc.req_buf = [alloc |-> TRUE, htx |-> [htx EXCEPT !.eom = TRUE]],
              !.ret = 0]

gen_done(W, htx) ==
    [W EXCEPT !.hc.req_buf = [alloc |-> TRUE,
                              htx |-> [htx EXCEPT !.eom = @ \/ "req_payload" \notin W.hc.ops]],
              !.ret = 0]

\* lines 300-359: the start line, the headers, the defaults, the end of the
\* headers and the payload
gen_build(W, url, meth, hdrs, payload, env) ==
    LET bodyless == "req_payload" \notin W.hc.ops /\ ~isttest(payload)
        S == htx_add_blk(W.hc.req_buf.htx, env.cap,
                         Blk("SL", <<[meth |-> meth, url |-> url, bodyless |-> bodyless]>>))
        H == IF S.ok THEN gen_hdrs(S.htx, env.cap, hdrs, {})
             ELSE [htx |-> S.htx, ok |-> FALSE, found |-> {}]
        D1 == gen_default(H, env.cap, "host" \notin H.found, Blk("HDR", <<Hdr("Host", ist("h"))>>))
        U == IF D1.ok /\ "host" \notin H.found
             THEN [htx |-> IF env.upd_ok THEN http_update_host(D1.htx, url) ELSE D1.htx,
                   ok |-> env.upd_ok]
             ELSE D1
        D2 == gen_default(U, env.cap, "accept" \notin H.found,
                          Blk("HDR", <<Hdr("Accept", ist("*/*"))>>))
        D3 == gen_default(D2, env.cap, "user-agent" \notin H.found,
                          Blk("HDR", <<Hdr("User-Agent", ist(HTTPCLIENT_USERAGENT))>>))
        E == gen_default(D3, env.cap, TRUE, Blk("EOH", <<0>>))
        P == gen_default(E, env.cap, isttest(payload), Blk("DATA", payload.s))
    IN  IF ~P.ok THEN gen_fail(W, P.htx)
        ELSE gen_done(W, P.htx)

httpclient_req_gen_nometh(W, url, meth, hdrs, payload, env) ==
    IF env.oom /\ ~W.hc.req_buf.alloc THEN [W EXCEPT !.ret = ERR_ALERT_ABORT]
    ELSE gen_build(W, url, meth, hdrs, payload, env)

httpclient_req_gen(W, url, meth, hdrs, payload, env) ==
    IF env.oom /\ ~W.hc.req_buf.alloc THEN [W EXCEPT !.ret = ERR_ALERT_ABORT]
    ELSE IF meth >= HTTP_METH_OTHER THEN gen_fail(W, W.hc.req_buf.htx)
    ELSE gen_build(W, url, meth, hdrs, payload, env)

(***************************************************************************)
(* A caller builds the request of a new client: every call of              *)
(* httpclient_req_gen on a client whose request buffer is still unused.    *)
(***************************************************************************)
MaxGenHdrs == 2

GenCap == MaxGenHdrs + 6

HdrEntries ==
    { Hdr("", ist("v")), Hdr("hOsT", ist("v")), Hdr("hOsT", NoStr), Hdr("ACCEPT", ist("v")),
      Hdr("User-Agent", ist("v")), Hdr("X-Foo", ist("")) }

RECURSIVE SeqsUpTo(_, _)
SeqsUpTo(S, n) ==
    IF n = 0 THEN {<<>>}
    ELSE LET R == SeqsUpTo(S, n - 1)
         IN  R \cup { Append(q, x) : q \in {r \in R : Len(r) = n - 1}, x \in S }

GenInputs ==
    [url : {[auth |-> "a:81"]},
     meth : {HTTP_METH_GET, HTTP_METH_OTHER},
     hdrs : SeqsUpTo(HdrEntries, MaxGenHdrs),
     payload : {NoData, ist(<<1>>), ist(<<1, 2>>)},
     env : [oom : BOOLEAN, cap : 0..GenCap, upd_ok : BOOLEAN]]

GenInit ==
    /\ \E ops \in OpsChoices :
         hc = [NoClient EXCEPT !.alloc = "live", !.caller = TRUE, !.ops = ops]
    /\ ap = NoApplet
    /\ res = NoChannel
    /\ req = NoChannel
    /\ wire = NoWire
    /\ tasks = 0
    /\ call = NoCall
    /\ cref = TRUE
    /\ mt = Idle
    /\ xfer_sock_list = NULL
    /\ xfer_mem = <<>>
    /\ Unbound

ReqGen ==
    /\ CanCall
    /\ call = NoCall
    /\ \E in \in GenInputs :
         \E W \in {httpclient_req_gen(World, in.url, in.meth, in.hdrs, in.payload, in.env)} :
            /\ Commit(W)
            /\ call' = [Call("req_gen", W.ret) EXCEPT !.arg = in]
    /\ UNCHANGED <<wire, cref, mt>>
    /\ UNCHANGED socks

GenNext == ReqGen

SpecGen == GenInit /\ [][GenNext]_vars

\* the headers the caller supplied: those before the first empty name that
\* have a value
RECURSIVE Supplied(_)
Supplied(hdrs) ==
    IF hdrs = <<>> \/ Head(hdrs).n = "" THEN <<>>
    ELSE (IF Head(hdrs).v.ptr THEN <<Head(hdrs)>> ELSE <<>>) \o Supplied(Tail(hdrs))

\* the headers of an HTX message, in order
RECURSIVE HtxHdrs(_)
HtxHdrs(blks) ==
    IF blks = <<>> THEN <<>>
    ELSE (IF Head(blks).t = "HDR" THEN Head(blks).v ELSE <<>>) \o HtxHdrs(Tail(blks))

Named(hs, name) == \E i \in 1..Len(hs) : tolower(hs[i].n) = name

GenOk == call.op = "req_gen" /\ call.v = 0

\* C13: after a successful httpclient_req_gen the request holds the headers
\* the caller supplied, as given and in order, followed by one Host header
\* whose value is the authority of the URL when the caller supplied no Host,
\* one Accept header with */*  when it supplied no Accept and one User-Agent
\* header with the client's identifier when it supplied no User-Agent, the
\* names compared without regard to case; no default is added for a header
\* the caller supplied.
C13_HeaderDefaults ==
    GenOk =>
        LET sup == Supplied(call.arg.hdrs)
        IN  HtxHdrs(hc.req_buf.htx.blks) =
               sup
               \o (IF Named(sup, "host") THEN <<>>
                   ELSE <<Hdr("Host", ist(call.arg.url.auth))>>)
               \o (IF Named(sup, "accept") THEN <<>> ELSE <<Hdr("Accept", ist("*/*"))>>)
               \o (IF Named(sup, "user-agent") THEN <<>>
                   ELSE <<Hdr("User-Agent", ist(HTTPCLIENT_USERAGENT))>>)

\* the caller supplied a Host header in another case and no Accept header
C13_Witness ==
    /\ GenOk
    /\ \E i \in 1..Len(call.arg.hdrs) : call.arg.hdrs[i] = Hdr("hOsT", ist("v"))
    /\ Named(Supplied(call.arg.hdrs), "host")
    /\ ~Named(Supplied(call.arg.hdrs), "accept")
    /\ Len(HtxHdrs(hc.req_buf.htx.blks)) = Len(Supplied(call.arg.hdrs)) + 2

\* the data an HTX message holds after the end of its headers
RECURSIVE AfterEoh(_)
AfterEoh(blks) ==
    IF blks = <<>> THEN <<>>
    ELSE IF Head(blks).t = "EOH" THEN Tail(blks)
    ELSE AfterEoh(Tail(blks))

\* C14: a successful httpclient_req_gen marks the request as complete if and
\* only if no hc->ops.req_payload is registered; its start line is marked
\* bodyless if and only if no payload was given and no such callback is
\* registered; and a payload that was given is the body data after the end
\* of the headers.
C14_EomBodylessPayload ==
    GenOk =>
        LET blks == hc.req_buf.htx.blks
            payload == call.arg.payload
        IN  /\ hc.req_buf.htx.eom <=> "req_payload" \notin hc.ops
            /\ blks[1].t = "SL"
            /\ blks[1].v[1].bodyless <=> (~payload.ptr /\ "req_payload" \notin hc.ops)
            /\ AfterEoh(blks) = IF payload.ptr THEN <<Blk("DATA", payload.s)>> ELSE <<>>

\* a payload was given to a client that streams no body
C14_Witness ==
    /\ GenOk
    /\ call.arg.payload = ist(<<1, 2>>)
    /\ "req_payload" \notin hc.ops
    /\ hc.req_buf.htx.eom

\* the bytes the request needs in the HTX message
GenNeed(in) ==
    LET sup == Supplied(in.hdrs)
    IN  1 + Len(sup)
        + (IF Named(sup, "host") THEN 0 ELSE 1)
        + (IF Named(sup, "accept") THEN 0 ELSE 1)
        + (IF Named(sup, "user-agent") THEN 0 ELSE 1)
        + 1 + Len(in.payload.s)

\* C15: httpclient_req_gen returns an error for a method at or beyond
\* HTTP_METH_OTHER and whenever an allocation fails or the start line, a
\* header, the end of the headers or the payload does not fit; and a call
\* that returns an error leaves the request unmarked.
C15_ErrorsNeverMarkEom ==
    call.op = "req_gen" =>
        LET in == call.arg
        IN  /\ (in.meth >= HTTP_METH_OTHER \/ in.env.oom \/ in.env.cap < GenNeed(in))
               => call.v # 0
            /\ call.v # 0 => ~hc.req_buf.htx.eom

\* the payload did not fit after the headers did
C15_Witness ==
    /\ call.op = "req_gen"
    /\ call.v # 0
    /\ call.arg.meth = HTTP_METH_GET
    /\ call.arg.env.cap = GenNeed(call.arg) - 1
    /\ call.arg.payload.ptr
    /\ \E i \in 1..Len(hc.req_buf.htx.blks) : hc.req_buf.htx.blks[i].t = "EOH"

\* C16: in every reachable state in which HTTPCLIENT_FA_STOP is set on a live
\* client, hc->caller is already null, the states between the statements of
\* httpclient_stop_and_destroy included.
C16_StopImpliesNoCaller ==
    (hc.alloc = "live" /\ FA_STOP \in hc.flags) => ~hc.caller

(***************************************************************************)
(* The URLs a caller can give to httpclient_new, each made of a scheme     *)
(* part, user information, a host, a port suffix and a path, any of which  *)
(* may be missing; and every call of httpclient_spliturl on one of them.   *)
(***************************************************************************)
UrlSchemes ==
    { <<>>, HttpPrefix, HttpsPrefix, <<"H", "t", "T", "p", "S", ":", "/", "/">>,
      <<"f", "t", "p", ":", "/", "/">> }

UrlUsers == { <<>>, <<"u", "@">> }

UrlHosts == { <<>>, <<"a">>, <<"1", ".", "1">> }

UrlPorts == { <<>>, <<":">>, <<":", "8">>, <<":", "8", "0">>, <<":", "8", "a">> }

UrlPaths == { <<>>, <<"/">>, <<"/", "p", ":", "4">> }

UrlParts == [sch : UrlSchemes, user : UrlUsers, host : UrlHosts, port : UrlPorts,
             path : UrlPaths]

UrlOf(u) == u.sch \o u.user \o u.host \o u.port \o u.path

\* what the byte after the URL can hold
Garbage == {":", "x"}

UrlInit ==
    /\ hc = [NoClient EXCEPT !.alloc = "live", !.caller = TRUE]
    /\ ap = NoApplet
    /\ res = NoChannel
    /\ req = NoChannel
    /\ wire = NoWire
    /\ tasks = 0
    /\ call = NoCall
    /\ cref = TRUE
    /\ mt = Idle
    /\ xfer_sock_list = NULL
    /\ xfer_mem = <<>>
    /\ Unbound

SplitUrl ==
    /\ CanCall
    /\ call = NoCall
    /\ \E u \in UrlParts, g \in Garbage :
         \E R \in {httpclient_spliturl(UrlOf(u), g)} :
            /\ hc' = [hc EXCEPT !.crashed = R.crashed]
            /\ call' = [Call("spliturl", 0) EXCEPT !.arg = [u |-> u, g |-> g], !.dout = R]
    /\ UNCHANGED <<ap, res, req, wire, tasks, cref, mt>>
    /\ UNCHANGED socks

UrlNext == SplitUrl

SpecUrl == UrlInit /\ [][UrlNext]_vars

\* C18: for every URL httpclient_spliturl gives the scheme https and the
\* default port 443 when the URL starts with https:// in any case, and the
\* scheme http and the default port 80 otherwise, also when it finds no
\* scheme; when the authority ends in : and decimal digits the port is their
\* value and the host the authority without them, otherwise the host is the
\* whole authority and the port the default of the scheme.
C18_SplitUrl ==
    call.op = "spliturl" =>
        LET u == call.arg.u
            url == UrlOf(u)
            https == Len(url) >= Len(HttpsPrefix)
                     /\ istlower(SubSeq(url, 1, Len(HttpsPrefix))) = HttpsPrefix
            digits == Len(u.port) > 1 /\ \A i \in 2..Len(u.port) : isdigit(u.port[i])
        IN  /\ ~call.dout.crashed
            /\ call.dout.scheme = IF https THEN SCH_HTTPS ELSE SCH_HTTP
            /\ call.dout.host = IF digits THEN u.host ELSE u.host \o u.port
            /\ call.dout.port = IF digits THEN atoi(Tail(u.port))
                                ELSE IF https THEN 443 ELSE 80

(***************************************************************************)
(* A caller sets or not a destination on a new client, then starts it on   *)
(* a URL that has a host.                                                  *)
(***************************************************************************)
InitUrls ==
    { UrlOf(u) : u \in { v \in UrlParts :
                           /\ v.host # <<>>
                           /\ v.port \in {<<>>, <<":", "8">>, <<":", "8", "0">>}
                           /\ v.path # <<"/">> } }

InitEnvs ==
    { InitEnv(url, ssl, oom, nostream) :
        url \in InitUrls, ssl \in BOOLEAN, oom \in BOOLEAN, nostream \in BOOLEAN }

DstInit == UrlInit

SetDst ==
    /\ CanCall
    /\ ~httpclient_started(hc)
    /\ call.op \in {"none", "set_dst"}
    /\ \E dst \in {DstGood, DstBad}, oom \in BOOLEAN :
         \E W \in {httpclient_set_dst(World, dst, oom)} :
            /\ Commit(W)
            /\ call' = [Call("set_dst", W.ret) EXCEPT
                         !.arg = [dst |-> dst, oom |-> oom, had |-> hc.dst]]
    /\ UNCHANGED <<wire, cref, mt>>
    /\ UNCHANGED socks

StartOn ==
    /\ CanCall
    /\ ~httpclient_started(hc)
    /\ \E env \in InitEnvs :
         \E W \in {httpclient_start(World, APPCTX, TRUE, env)} :
            /\ Commit(W)
            /\ call' = [Call("start", W.ret) EXCEPT
                         !.arg = [env |-> env, newok |-> TRUE, refused |-> FALSE],
                         !.dout = W.strm]
            /\ wire' = IF W.ret # NULL THEN WireStart ELSE wire
    /\ UNCHANGED <<cref, mt>>
    /\ UNCHANGED socks

DstNext == SetDst \/ StartOn

SpecDst == DstInit /\ [][DstNext]_vars

\* the start of the last step succeeded
Started == call.op = "start" /\ call.v # NULL

\* C17: the destination of a started task is the one set with
\* httpclient_set_dst when there is one, whatever the URL; otherwise the
\* host of the URL with the port of the URL when the host is a literal IP
\* address; otherwise 0.0.0.0 with the port of the URL, to be resolved.  It
\* is attached to the front side of the stream in the last case only, and
\* to the back side in the two others.
C17_DestinationPrecedence ==
    Started =>
        LET U == httpclient_spliturl(call.arg.env.url, call.arg.env.g)
            literal == \A i \in 1..Len(U.host) : U.host[i] \in Digits \cup {"."}
            strm == call.dout
        IN  IF hc.dst # NoAddr
            THEN strm.scb_dst = hc.dst /\ strm.scf_dst = NoAddr
            ELSE IF literal
            THEN strm.scb_dst = Addr(U.host, U.port) /\ strm.scf_dst = NoAddr
            ELSE strm.scf_dst = Addr(AnyIp, U.port) /\ strm.scb_dst = NoAddr

\* a destination was set and the URL names a host with a port
C17_Witness ==
    /\ Started
    /\ hc.dst = Addr(<<"1", ".", "4">>, 8)
    /\ call.arg.env.url = HttpPrefix \o <<"a", ":", "8", "0">>
    /\ call.dout.scb_dst = hc.dst

\* the URL of the last start begins with https://
HttpsUrl ==
    LET url == call.arg.env.url
    IN  Len(url) >= Len(HttpsPrefix)
        /\ istlower(SubSeq(url, 1, Len(HttpsPrefix))) = HttpsPrefix

\* C19: the stream of a started task has the plain-text server as target
\* for an http URL and the TLS server for an https URL; without the TLS
\* server the start of an https URL fails and returns NULL: an https
\* request never gets the plain-text server.
C19_NoDowngrade ==
    call.op = "start" =>
        /\ (Started /\ ~HttpsUrl) => call.dout.target = "srv_raw"
        /\ (Started /\ HttpsUrl) => call.dout.target = "srv_ssl"
        /\ (HttpsUrl /\ ~call.arg.env.srv_ssl) => (call.v = NULL /\ ~ap.alive)

\* an https start without the TLS server
C19_Witness ==
    /\ call.op = "start"
    /\ HttpsUrl
    /\ ~call.arg.env.srv_ssl
    /\ ~call.arg.env.oom
    /\ call.v = NULL

(***************************************************************************)
(* sock.c: the sockets the old process handed over.  xfer_mem[i] is the    *)
(* struct xfer_sock_list at address i: its fd, options (a set of           *)
(* SOCK_XFER_OPT_ flags), interface and namespace names (the empty string  *)
(* for none, so that a name's length is 0 exactly when there is none), its *)
(* address, its next and prev pointers, and whether it was freed.          *)
(* xfer_sock_list is the address of the first entry; NULL is no address.   *)
(* given counts the calls that returned the entry's fd.                    *)
(***************************************************************************)
MaxSocks == 3

XferKind(options, iface, namespace, addr) ==
    [options |-> options, iface |-> iface, namespace |-> namespace, addr |-> addr]

\* an address is its family and what it holds
SockAddr(family, a) == [family |-> family, a |-> a]

\* the sockets the old process can send
XferKinds ==
    { XferKind({}, "", "", SockAddr("AF_INET", 1)),
      XferKind({}, "e", "", SockAddr("AF_INET", 1)),
      XferKind({"DGRAM"}, "", "", SockAddr("AF_INET", 1)),
      XferKind({"V6ONLY"}, "", "n", SockAddr("AF_INET6", 2)) }

\* lines 489-494 of sock_get_old_sockets: the entry of fd is put at the head
xfer_link(S, fd, k) ==
    LET id == Len(S.mem) + 1
        node == [fd |-> fd, options |-> k.options, iface |-> k.iface,
                 namespace |-> k.namespace, addr |-> k.addr,
                 next |-> S.head, prev |-> NULL, freed |-> FALSE, given |-> 0]
        mem1 == IF S.head # NULL THEN [S.mem EXCEPT ![S.head].prev = id] ELSE S.mem
    IN  [S EXCEPT !.head = id, !.mem = Append(mem1, node)]

\* the i-th socket received has the fd i + 2
xfer_add(S, k) == xfer_link(S, Len(S.mem) + 3, k)

RECURSIVE xfer_get(_)
xfer_get(ks) ==
    IF ks = <<>> THEN [head |-> NULL, mem |-> <<>>]
    ELSE xfer_add(xfer_get(SubSeq(ks, 1, Len(ks) - 1)), ks[Len(ks)])

\* the family's addrcmp: 0 for equal addresses
addrcmp(a, b) == IF a = b THEN 0 ELSE -1

\* lines 545-559: the options wanted for the receiver
rx_options(rx, v6only_default) ==
    (IF rx.sock_type = "SOCK_DGRAM" THEN {"DGRAM"} ELSE {})
    \cup (IF rx.foreign THEN {"FOREIGN"} ELSE {})
    \cup (IF rx.addr.family = "AF_INET6" /\ (rx.v6only \/ (v6only_default /\ ~rx.v4v6))
          THEN {"V6ONLY"} ELSE {})

\* the test of lines 569-576: the names in use have one character, so two
\* names have the same length when both or neither are empty; strcmp tells
\* names of the same length apart
xfer_match(e, rx, options) ==
    /\ options = e.options
    /\ (rx.iface = "") = (e.iface = "")
    /\ (rx.netns = "") = (e.namespace = "")
    /\ (rx.iface = "" \/ rx.iface = e.iface)
    /\ (rx.netns = "" \/ rx.netns = e.namespace)
    /\ addrcmp(e.addr, rx.addr) = 0

\* the while loop of lines 568-579: the first entry from x on that matches
RECURSIVE xfer_find(_, _, _, _)
xfer_find(mem, x, rx, options) ==
    IF x = NULL THEN NULL
    ELSE IF xfer_match(mem[x], rx, options) THEN x
    ELSE xfer_find(mem, mem[x].next, rx, options)

sock_find_compatible_fd_nounlink(S, rx, v6only_default) ==
    IF ~rx.has_addrcmp THEN [S EXCEPT !.ret = -1]
    ELSE LET x == xfer_find(S.mem, S.head, rx, rx_options(rx, v6only_default))
         IN  IF x = NULL THEN [S EXCEPT !.ret = -1]
             ELSE [S EXCEPT !.ret = S.mem[x].fd, !.mem[x].given = @ + 1]

\* S is [head, mem, ret]
sock_find_compatible_fd(S, rx, v6only_default) ==
    IF ~rx.has_addrcmp THEN [S EXCEPT !.ret = -1]
    ELSE LET x == xfer_find(S.mem, S.head, rx, rx_options(rx, v6only_default))
             e == S.mem[x]
             head1 == IF x = S.head THEN e.next ELSE S.head
             mem1 == IF e.prev # NULL THEN [S.mem EXCEPT ![e.prev].next = e.next] ELSE S.mem
             mem2 == IF e.next # NULL THEN [mem1 EXCEPT ![e.next].prev = e.prev] ELSE mem1
         IN  IF x = NULL THEN [S EXCEPT !.ret = -1]
             ELSE [head |-> head1,
                   mem |-> [mem2 EXCEPT ![x].freed = TRUE, ![x].given = @ + 1],
                   ret |-> e.fd]

(***************************************************************************)
(* The new process: it received sockets, then binds receivers one after    *)
(* the other.                                                              *)
(***************************************************************************)
Receiver(has_addrcmp, sock_type, v6only, iface, netns, addr) ==
    [has_addrcmp |-> has_addrcmp, sock_type |-> sock_type, foreign |-> FALSE,
     v6only |-> v6only, v4v6 |-> FALSE, iface |-> iface, netns |-> netns, addr |-> addr]

\* the receivers to bind: stream or datagram, on an interface or not, in a
\* namespace or not, of a family that has no addrcmp
Receivers ==
    { Receiver(TRUE, t, FALSE, i, "", SockAddr("AF_INET", 1)) :
        t \in {"SOCK_STREAM", "SOCK_DGRAM"}, i \in {"", "e", "f"} }
    \cup { Receiver(TRUE, "SOCK_STREAM", v, "", n, SockAddr("AF_INET6", 2)) :
             v \in BOOLEAN, n \in {"", "n", "m"} }
    \cup { Receiver(FALSE, "SOCK_STREAM", FALSE, "", "", SockAddr("AF_INET", 1)),
           Receiver(TRUE, "SOCK_STREAM", FALSE, "", "", SockAddr("AF_INET", 2)) }

SockInit ==
    /\ hc = NoClient
    /\ ap = NoApplet
    /\ res = NoChannel
    /\ req = NoChannel
    /\ wire = NoWire
    /\ tasks = 0
    /\ call = NoCall
    /\ cref = FALSE
    /\ mt = Idle
    /\ \E ks \in SeqsUpTo(XferKinds, MaxSocks) :
         \E S \in {xfer_get(ks)} :
            /\ xfer_sock_list = S.head
            /\ xfer_mem = S.mem
    /\ Unbound

\* the entries of the list from x on, by their next pointers (at most n)
RECURSIVE XferList(_, _, _)
XferList(mem, x, n) ==
    IF x = NULL \/ n = 0 THEN <<>>
    ELSE <<x>> \o XferList(mem, mem[x].next, n - 1)

FindCompatibleFd ==
    /\ \E rx \in Receivers, v6only_default \in BOOLEAN :
         \E S \in {sock_find_compatible_fd([head |-> xfer_sock_list, mem |-> xfer_mem, ret |-> 0],
                                           rx, v6only_default)} :
            /\ xfer_sock_list' = S.head
            /\ xfer_mem' = S.mem
            /\ call' = [Call("find_fd", S.ret) EXCEPT
                         !.arg = [rx |-> rx, options |-> rx_options(rx, v6only_default)],
                         !.bin = XferList(xfer_mem, xfer_sock_list, Len(xfer_mem))]
    /\ UNCHANGED <<hc, ap, res, req, wire, tasks, cref, mt>>
    /\ UNCHANGED <<bound, cli>>

SockNext == FindCompatibleFd

SpecSock == SockInit /\ [][SockNext]_vars

\* the list is well linked: its first entry has no prev, every entry is the
\* prev of its next, it ends, and none of its entries was freed
WellLinked ==
    LET l == XferList(xfer_mem, xfer_sock_list, Len(xfer_mem) + 1)
    IN  /\ Len(l) <= Len(xfer_mem)
        /\ \A i \in 1..Len(l) :
              /\ ~xfer_mem[l[i]].freed
              /\ xfer_mem[l[i]].prev = IF i = 1 THEN NULL ELSE l[i - 1]
              /\ xfer_mem[l[i]].next = IF i = Len(l) THEN NULL ELSE l[i + 1]

\* seq without its i-th element
Without(seq, i) == SubSeq(seq, 1, i - 1) \o SubSeq(seq, i + 1, Len(seq))

\* C20: over any sequence of calls of sock_find_compatible_fd the fd of a
\* received socket is returned by at most one call; a call that returns an
\* fd removes the entry of that fd, which matches the receiver, from
\* xfer_sock_list and leaves the other entries in their order, with next
\* and prev pointers that agree; a call for which no entry matches in
\* options, interface name, namespace name and address, or whose family has
\* no addrcmp, returns -1 and leaves the list as it was.
C20_FdGivenOnce ==
    /\ WellLinked
    /\ \A x \in 1..Len(xfer_mem) : xfer_mem[x].given <= 1
    /\ call.op = "find_fd" =>
          LET before == call.bin
              after == XferList(xfer_mem, xfer_sock_list, Len(xfer_mem))
              rx == call.arg.rx
              fits(x) == /\ rx.has_addrcmp
                         /\ xfer_mem[x].options = call.arg.options
                         /\ xfer_mem[x].iface = rx.iface
                         /\ xfer_mem[x].namespace = rx.netns
                         /\ xfer_mem[x].addr = rx.addr
          IN  /\ call.v >= 0 =>
                    \E i \in 1..Len(before) :
                       /\ xfer_mem[before[i]].fd = call.v
                       /\ fits(before[i])
                       /\ after = Without(before, i)
              /\ call.v < 0 => (call.v = -1 /\ after = before)
              /\ (\A i \in 1..Len(before) : ~fits(before[i])) => call.v = -1

\* the middle one of three sockets was given, then another one
C20_Witness ==
    /\ call.op = "find_fd"
    /\ call.v >= 0
    /\ Len(xfer_mem) = MaxSocks
    /\ Len(call.bin) = MaxSocks - 1
    /\ \E x \in 1..Len(xfer_mem) :
          xfer_mem[x].freed /\ xfer_mem[x].prev # NULL /\ xfer_mem[x].next # NULL

(***************************************************************************)
(* sock.c: enabling, disabling and unbinding a receiver.  rcv is the       *)
(* struct receiver (its flags, a set of RX_F_ flags, and its fd, -1 for    *)
(* none); fdtab[fd] tells whether fd is open and whether reception is      *)
(* wanted on it; glob holds the globals stopping and master and whether    *)
(* GTUNE_SOCKET_TRANSFER is in global.tune.options.  R is [rx, fdtab].     *)
(***************************************************************************)
RX_F_BOUND == "BOUND"

RX_F_INHERITED == "INHERITED"

RX_F_MWORKER == "MWORKER"

fd_want_recv_safe(tab, fd) == [tab EXCEPT ![fd].recv = TRUE]

fd_stop_recv(tab, fd) == [tab EXCEPT ![fd].recv = FALSE]

fd_delete(tab, fd) == [tab EXCEPT ![fd] = [open |-> FALSE, recv |-> FALSE]]

sock_enable(R) ==
    IF RX_F_BOUND \in R.rx.flags
    THEN [R EXCEPT !.fdtab = fd_want_recv_safe(@, R.rx.fd)] ELSE R

sock_disable(R) ==
    IF RX_F_BOUND \in R.rx.flags
    THEN [R EXCEPT !.fdtab = fd_stop_recv(@, R.rx.fd)] ELSE R

\* the receiver's protocol is one of the socket protocols: rx_disable is
\* sock_disable
sock_unbind_nostop(R, g) ==
    LET R1 == IF RX_F_BOUND \in R.rx.flags THEN sock_disable(R) ELSE R
    IN  IF ~g.master /\ RX_F_MWORKER \notin R1.rx.flags /\ g.socket_transfer THEN R1
        ELSE IF g.master /\ RX_F_INHERITED \in R1.rx.flags THEN R1
        ELSE [rx |-> [flags |-> R1.rx.flags \ {RX_F_BOUND}, fd |-> -1],
              fdtab |-> IF R1.rx.fd # -1 THEN fd_delete(R1.fdtab, R1.rx.fd) ELSE R1.fdtab]

sock_unbind(R, g) ==
    LET R1 == IF RX_F_BOUND \in R.rx.flags THEN sock_disable(R) ELSE R
    IN  IF ~g.stopping /\ ~g.master /\ RX_F_MWORKER \notin R1.rx.flags /\ g.socket_transfer
        THEN R1
        ELSE IF ~g.stopping /\ g.master /\ RX_F_INHERITED \in R1.rx.flags THEN R1
        ELSE [rx |-> [flags |-> R1.rx.flags \ {RX_F_BOUND}, fd |-> -1],
              fdtab |-> IF R1.rx.fd # -1 THEN fd_delete(R1.fdtab, R1.rx.fd) ELSE R1.fdtab]

(***************************************************************************)
(* A process, master or worker, with one receiver: bound on an open fd, or *)
(* not bound and then with the fd it kept or with none.  The process       *)
(* enables, disables and unbinds the receiver, and starts stopping.        *)
(***************************************************************************)
UnbindInit ==
    /\ hc = NoClient
    /\ ap = NoApplet
    /\ res = NoChannel
    /\ req = NoChannel
    /\ wire = NoWire
    /\ tasks = 0
    /\ call = NoCall
    /\ cref = FALSE
    /\ mt = Idle
    /\ xfer_sock_list = NULL
    /\ xfer_mem = <<>>
    /\ cli = NoCli
    /\ glob \in [stopping : {FALSE}, master : BOOLEAN, socket_transfer : BOOLEAN]
    /\ \E fl \in SUBSET {RX_F_BOUND, RX_F_INHERITED, RX_F_MWORKER}, recv \in BOOLEAN :
         /\ rcv \in [flags : {fl}, fd : IF RX_F_BOUND \in fl THEN {1} ELSE {-1, 1}]
         /\ fdtab = <<[open |-> rcv.fd # -1, recv |-> rcv.fd # -1 /\ recv]>>

Rcv == [rx |-> rcv, fdtab |-> fdtab]

SockEnable ==
    /\ \E R \in {sock_enable(Rcv)} : rcv' = R.rx /\ fdtab' = R.fdtab
    /\ call' = Call("enable", 0)
    /\ UNCHANGED <<hc, ap, res, req, wire, tasks, cref, mt, xfer, glob, cli>>

SockDisable ==
    /\ \E R \in {sock_disable(Rcv)} : rcv' = R.rx /\ fdtab' = R.fdtab
    /\ call' = Call("disable", 0)
    /\ UNCHANGED <<hc, ap, res, req, wire, tasks, cref, mt, xfer, glob, cli>>

SockUnbind ==
    /\ \E R \in {sock_unbind(Rcv, glob)} : rcv' = R.rx /\ fdtab' = R.fdtab
    /\ call' = [Call("unbind", 0) EXCEPT !.arg = Rcv]
    /\ UNCHANGED <<hc, ap, res, req, wire, tasks, cref, mt, xfer, glob, cli>>

Stopping ==
    /\ ~glob.stopping
    /\ glob' = [glob EXCEPT !.stopping = TRUE]
    /\ call' = NoCall
    /\ UNCHANGED <<hc, ap, res, req, wire, tasks, cref, mt, xfer, rcv, fdtab, cli>>

UnbindNext == SockEnable \/ SockDisable \/ SockUnbind \/ Stopping

SpecUnbind == UnbindInit /\ [][UnbindNext]_vars

\* what the comment of sock_unbind lists for a process that is not stopping:
\* keep the FD (TRUE) or close it (FALSE)
Situation(flags) ==
    LET worker_fd == RX_F_MWORKER \notin flags
        inherited == RX_F_INHERITED \in flags
    IN  CASE ~glob.master /\ worker_fd /\ glob.socket_transfer -> TRUE
          [] glob.master /\ ~worker_fd /\ inherited -> TRUE
          [] glob.master /\ ~worker_fd /\ ~inherited -> FALSE
          [] glob.master /\ worker_fd /\ inherited -> TRUE
          [] glob.master /\ worker_fd /\ ~inherited -> FALSE
          [] ~glob.master /\ ~worker_fd -> FALSE
          [] ~glob.master /\ worker_fd /\ ~glob.socket_transfer -> FALSE

\* C21: sock_unbind leaves the receiver's fd and RX_F_BOUND as they were,
\* with reception stopped on the fd of a bound receiver and the fd still
\* open, exactly when the process is not stopping and is either a worker
\* with socket transfer enabled and a receiver that is not RX_F_MWORKER, or
\* the master with a receiver that is RX_F_INHERITED; in every other case
\* RX_F_BOUND is cleared, the fd is deleted unless it was -1, and fd is -1.
\* This is what the comment of the function lists in its seven situations.
C21_UnbindKeepsOrCloses ==
    call.op = "unbind" =>
        LET old == call.arg
            keep == /\ ~glob.stopping
                    /\ \/ ~glob.master /\ RX_F_MWORKER \notin old.rx.flags
                          /\ glob.socket_transfer
                       \/ glob.master /\ RX_F_INHERITED \in old.rx.flags
        IN  /\ ~glob.stopping => keep = Situation(old.rx.flags)
            /\ keep =>
                 /\ rcv = old.rx
                 /\ old.rx.fd # -1 => fdtab[old.rx.fd].open = old.fdtab[old.rx.fd].open
                 /\ RX_F_BOUND \in old.rx.flags => ~fdtab[old.rx.fd].recv
                 /\ RX_F_BOUND \notin old.rx.flags => fdtab = old.fdtab
            /\ ~keep =>
                 /\ rcv.flags = old.rx.flags \ {RX_F_BOUND}
                 /\ rcv.fd = -1
                 /\ old.rx.fd # -1 => ~fdtab[old.rx.fd].open

\* a stopping worker closed the fd it would have kept for a transfer
C21_Witness ==
    /\ call.op = "unbind"
    /\ glob.stopping /\ ~glob.master /\ glob.socket_transfer
    /\ call.arg.rx = [flags |-> {RX_F_BOUND}, fd |-> 1]
    /\ call.arg.fdtab[1].recv
    /\ rcv = [flags |-> {}, fd |-> -1]
    /\ ~fdtab[1].open

(***************************************************************************)
(* sock_get_old_sockets.  e is what the call meets:                        *)
(*   early  the step before the sockets arrive that fails, "none" for none *)
(*          (malloc of cmsgbuf, socket, connect, send, recvmsg of the      *)
(*          count, malloc of tmpbuf, malloc of tmpfd)                      *)
(*   fd_nb  the number of sockets the old process announces                *)
(*   socks  the sockets it sends, in order; the i-th gets the fd i + 2.    *)
(*          Each has its kind (k) and its fate: "calloc" (calloc of the    *)
(*          entry fails), "getsockname" (getsockname fails), "malloc"      *)
(*          (malloc of a name fails), "ok"                                 *)
(*   batch  the number of sockets one message carries                      *)
(*   meta   the names sent along with the sockets, one [namespace, iface]  *)
(*          per socket, read in order by curoff                            *)
(* The result is [head, mem, ret, recvd, closed]: the list, the value      *)
(* returned, the fds the process received and those it closed.             *)
(***************************************************************************)
\* the do/while of lines 345-383: [got, recvd, to]
RECURSIVE recv_fds(_, _)
recv_fds(e, got_fd) ==
    LET n == Len(e.socks)
        k == Min(e.batch, n - got_fd)
    IN  IF got_fd >= e.fd_nb THEN [got |-> got_fd, recvd |-> got_fd, to |-> "done"]
        ELSE IF k <= 0 THEN [got |-> got_fd, recvd |-> got_fd, to |-> "done"]
        ELSE IF k + got_fd > e.fd_nb
        THEN [got |-> got_fd, recvd |-> got_fd + k, to |-> "out"]
        ELSE recv_fds(e, got_fd + k)

\* the fds tmpfd[from..got_fd - 1]
TmpFds(from, got_fd) == { i + 3 : i \in from..(got_fd - 1) }

\* the for loop of lines 394-496 from cur_fd on, curoff being at the m-th
\* record of meta; the result has cur_fd as the loop left it and ret2
RECURSIVE old_loop(_, _, _, _, _)
old_loop(S, e, cur_fd, got_fd, m) ==
    IF cur_fd >= got_fd THEN [S |-> S, cur_fd |-> cur_fd, ret2 |-> 0]
    ELSE LET sk == e.socks[cur_fd + 1]
             names == e.meta[m]
         IN  IF sk.fate = "calloc" THEN [S |-> S, cur_fd |-> cur_fd, ret2 |-> 0]
             ELSE IF sk.fate = "getsockname" THEN old_loop(S, e, cur_fd + 1, got_fd, m)
             ELSE IF m > Len(e.meta) THEN [S |-> S, cur_fd |-> cur_fd, ret2 |-> -1]
             ELSE IF sk.fate = "malloc" /\ (names.namespace # "" \/ names.iface # "")
             THEN [S |-> S, cur_fd |-> cur_fd, ret2 |-> -1]
             ELSE old_loop(xfer_link(S, cur_fd + 3,
                                     XferKind(sk.k.options, names.iface, names.namespace,
                                              sk.k.addr)),
                           e, cur_fd + 1, got_fd, m + 1)

sock_get_old_sockets(S, e) ==
    LET R == recv_fds(e, 0)
        S1 == [S EXCEPT !.recvd = @ \cup TmpFds(0, R.recvd)]
        L == old_loop(S1, e, 0, R.got, 1)
    IN  IF e.early # "none" THEN [S EXCEPT !.ret = -1]
        ELSE IF e.fd_nb = 0 THEN [S EXCEPT !.ret = 0]
        ELSE IF R.to = "out" \/ R.got # e.fd_nb
        THEN [S1 EXCEPT !.ret = -1, !.closed = @ \cup TmpFds(0, R.got)]
        ELSE [L.S EXCEPT !.ret = L.ret2, !.closed = @ \cup TmpFds(L.cur_fd, R.got)]

(***************************************************************************)
(* The new process asks the old one for its sockets, once.                 *)
(***************************************************************************)
Fates == {"ok", "calloc", "getsockname", "malloc"}

OldKinds ==
    { XferKind({}, "e", "", SockAddr("AF_INET", 1)),
      XferKind({"V6ONLY"}, "", "n", SockAddr("AF_INET6", 2)) }

Early == {"cmsgbuf", "socket", "connect", "send", "recvmsg", "tmpbuf", "tmpfd"}

\* the names the old process sends for its sockets, without the last short
\* of them
MetaOf(sent, short) ==
    [i \in 1..(Len(sent) - short) |->
       [namespace |-> sent[i].k.namespace, iface |-> sent[i].k.iface]]

OldInputs ==
    { [early |-> x, fd_nb |-> 1, socks |-> <<>>, batch |-> 1, meta |-> <<>>] : x \in Early }
    \cup { [early |-> "none", fd_nb |-> n, socks |-> sent, batch |-> b,
            meta |-> MetaOf(sent, short)] :
             sent \in SeqsUpTo([k : OldKinds, fate : Fates], MaxSocks),
             n \in 0..(MaxSocks + 1), b \in 1..2, short \in 0..1 }

OldInit ==
    /\ hc = NoClient
    /\ ap = NoApplet
    /\ res = NoChannel
    /\ req = NoChannel
    /\ wire = NoWire
    /\ tasks = 0
    /\ call = NoCall
    /\ cref = FALSE
    /\ mt = Idle
    /\ xfer_sock_list = NULL
    /\ xfer_mem = <<>>
    /\ Unbound

GetOldSockets ==
    /\ call = NoCall
    /\ \E e \in OldInputs :
         /\ Len(e.socks) - Len(e.meta) \in 0..1
         /\ Len(e.socks) - e.fd_nb \in -1..1
         /\ \E S \in {sock_get_old_sockets([head |-> xfer_sock_list, mem |-> xfer_mem,
                                            ret |-> 0, recvd |-> {}, closed |-> {}], e)} :
               /\ xfer_sock_list' = S.head
               /\ xfer_mem' = S.mem
               /\ call' = [Call("get_old_sockets", S.ret) EXCEPT
                            !.arg = e, !.dout = [recvd |-> S.recvd, closed |-> S.closed]]
    /\ UNCHANGED <<hc, ap, res, req, wire, tasks, cref, mt>>
    /\ UNCHANGED <<bound, cli>>

OldNext == GetOldSockets

SpecOld == OldInit /\ [][OldNext]_vars

\* the fds of the entries of xfer_sock_list
ListFds ==
    LET l == XferList(xfer_mem, xfer_sock_list, Len(xfer_mem))
    IN  { xfer_mem[l[i]].fd : i \in 1..Len(l) }

\* a step of the call failed: one of the early steps; fewer sockets than
\* announced, or a message that brings more; fewer names than sockets; for
\* one of the sockets announced a failed calloc, a failed getsockname, or a
\* failed malloc of a name it has
OldFailure(e) ==
    \/ e.early # "none"
    \/ Len(e.socks) < e.fd_nb
    \/ Len(e.socks) > e.fd_nb /\ e.fd_nb % e.batch # 0
    \/ Len(e.meta) < e.fd_nb
    \/ \E i \in 1..Min(e.fd_nb, Len(e.socks)) :
          \/ e.socks[i].fate \in {"calloc", "getsockname"}
          \/ e.socks[i].fate = "malloc"
             /\ (e.socks[i].k.namespace # "" \/ e.socks[i].k.iface # "")

\* C22: sock_get_old_sockets returns 0 only when all the sockets the old
\* process announced were received and each is in xfer_sock_list, and -1 on
\* any failure (of the connection, of a send or a receive, a count that does
\* not match, a failed allocation, a failed getsockname, names that are not
\* consistent); when it returns, every fd it received and did not put in
\* xfer_sock_list is closed.
C22_OldSocketsAllOrError ==
    call.op = "get_old_sockets" =>
        LET e == call.arg
        IN  /\ WellLinked
            /\ call.v \in {0, -1}
            /\ call.v = 0 => ListFds = TmpFds(0, e.fd_nb)
            /\ OldFailure(e) => call.v = -1
            /\ call.dout.recvd \ ListFds \subseteq call.dout.closed

\* C23, as the spec states it: after a successful httpclient_start the task
\* is in REQ when its handler first runs if no request-body callback is
\* installed, and in REQ_BODY if one is.
C23_FirstStateReq ==
    Started => ap.st0 = IF "req_payload" \in hc.ops THEN S_REQ_BODY ELSE S_REQ

\* C23, as the code has it: a successful httpclient_start leaves the task
\* scheduled and in RES_STLINE if no request-body callback is installed, in
\* REQ_BODY if one is; only the handler moves the state from there, so this
\* is the state of its first run, and a task is never in REQ.
C23_FirstStateAfterStart ==
    /\ Started =>
         /\ ap.alive /\ ap.woken /\ ~ap.shut
         /\ ap.st0 = IF "req_payload" \in hc.ops THEN S_REQ_BODY ELSE S_RES_STLINE
    /\ ap.alive => ap.st0 # S_REQ

\* a client without callbacks was started
C23_Witness ==
    /\ Started
    /\ "req_payload" \notin hc.ops
    /\ ap.st0 = S_RES_STLINE

\* C24: over the steps of one task the state never moves backward in the
\* order REQ < REQ_BODY < RES_STLINE < RES_HDR < RES_BODY < RES_END, and
\* RES_END is final: a task in RES_END stays in it, and the call of the
\* handler that reached it has shut the stream.
C24_ForwardOnly ==
    /\ [][(ap.alive /\ ap'.alive) => StateRank(ap'.st0) >= StateRank(ap.st0)]_vars
    /\ [](ap.alive /\ ap.st0 = S_RES_END => ap.shut)

\* a task went through the body to RES_END
C24_Witness ==
    /\ ap.alive
    /\ ap.st0 = S_RES_END
    /\ ap.shut
    /\ Count(ap.cbs, "res_payload") > 0

\* C25, as the spec states it: the exit hook invokes the on-end callback
\* only when the caller is still attached to the client.
C25_OnEndOnlyIfAttached == ap.end # <<>> => ap.end[1].caller

\* C25, as the code has it: the exit hook of a task invokes the on-end
\* callback exactly when one is installed, whether or not the caller is
\* still attached; the callback finds the client alive, with ENDED set and
\* no task, and it is the callback that notifies the caller only when one is
\* attached; the hook then destroys the client exactly when AUTOKILL is set.
C25_OnEndWhateverCaller ==
    [][(ap.alive /\ ~ap'.alive) =>
         /\ ap.end = <<>>
         /\ FS_ENDED \in hc'.flags /\ hc'.appctx = NULL
         /\ ap'.end # <<>> <=> "res_end" \in hc.ops
         /\ ap'.end # <<>> =>
              /\ ap'.end[1].alloc = "live"
              /\ ap'.end[1].ended
              /\ ap'.end[1].appctx = NULL
              /\ ap'.end[1].caller = hc.caller
              /\ ap'.end[1].notified = hc.caller
         /\ hc'.alloc = "freed" <=> FA_AUTOKILL \in hc.flags
         /\ hc'.alloc = "freed" => hc'.destroys = hc.destroys + 1]_vars

\* the exit hook of a stopped task invoked on-end with no caller attached,
\* then destroyed the client
C25_Witness ==
    /\ ap.id # NULL /\ ~ap.alive
    /\ ap.end # <<>>
    /\ ~ap.end[1].caller /\ ~ap.end[1].notified /\ ap.end[1].ended
    /\ hc.alloc = "freed"
    /\ FA_STOP \in hc.dflags

\* C26: a task leaves RES_HDR only once it has consumed the end-of-headers
\* block, and then hc->res.hdrs holds every header of the response in the
\* order of arrival, followed by the sentinel, also when the header blocks
\* reached the channel over several calls of the handler (no array when the
\* response has no header).
C26_HeadersCompleteAtEoh ==
    (ap.alive /\ StateRank(ap.st0) > StateRank(S_RES_HDR)) =>
        /\ wire.ph \in {"body", "done"}
        /\ ~EohWaiting /\ HdrsWaiting = 0
        /\ hc.res_hdrs = IF wire.nh = 0 THEN <<>> ELSE Range1(1, wire.nh) \o <<IST_NULL>>

(***************************************************************************)
(* RES_STLINE on its own: a task in RES_STLINE, a response channel that    *)
(* holds any blocks, with or without end-of-message, accounted as output   *)
(* or not; blocks arrive and the code of the state runs.                   *)
(***************************************************************************)
StlKinds == {"200", "404", "HDR", "EOH"}

StlBlk(k) ==
    CASE k = "200" -> Blk("SL", StLine(200, "HTTP/1.1", "OK"))
      [] k = "404" -> Blk("SL", StLine(404, "HTTP/1.0", "Not Found"))
      [] k = "HDR" -> Blk("HDR", <<1>>)
      [] k = "EOH" -> Blk("EOH", <<0>>)

StlInit ==
    /\ \E ops \in OpsChoices :
         hc = [NoClient EXCEPT !.alloc = "live", !.caller = TRUE, !.ops = ops,
                               !.flags = {FS_STARTED}, !.appctx = APPCTX]
    /\ ap = [NoApplet EXCEPT !.id = APPCTX, !.alive = TRUE, !.woken = TRUE,
                             !.st0 = S_RES_STLINE]
    /\ \E ks \in SeqsUpTo(StlKinds, 1), eom \in BOOLEAN, counted \in BOOLEAN :
         \E blks \in {[i \in 1..Len(ks) |-> StlBlk(ks[i])]} :
            res = [NoChannel EXCEPT !.htx = [blks |-> blks, eom |-> eom],
                                    !.output = IF counted THEN SumSz(blks) ELSE 0]
    /\ req = NoChannel
    /\ wire = NoWire
    /\ tasks = 1
    /\ call = NoCall
    /\ cref = TRUE
    /\ mt = Idle
    /\ xfer_sock_list = NULL
    /\ xfer_mem = <<>>
    /\ Unbound

StlArrive ==
    /\ ap.st0 = S_RES_STLINE
    /\ Len(res.htx.blks) < 2
    /\ \E k \in StlKinds, eom \in BOOLEAN :
         res' = [res EXCEPT !.htx.blks = Append(@, StlBlk(k)), !.htx.eom = eom,
                            !.output = SumSz(res.htx.blks) + htx_get_blksz(StlBlk(k))]
    /\ call' = NoCall
    /\ UNCHANGED <<hc, ap, req, wire, tasks, cref, mt>>
    /\ UNCHANGED socks

StlStep ==
    /\ ap.st0 = S_RES_STLINE
    /\ \E C \in {io_RES_STLINE(World)} :
         /\ Commit(C.W)
         /\ call' = [Call("stline", 0) EXCEPT
                      !.arg = [hc |-> hc, res |-> res, cbs |-> ap.cbs], !.dout = C.to]
    /\ UNCHANGED <<wire, cref, mt>>
    /\ UNCHANGED socks

StlNext == StlArrive \/ StlStep

SpecStl == StlInit /\ [][StlNext]_vars

\* C27: the code of RES_STLINE leaves the task in RES_STLINE and everything
\* as it was (goto more) as long as the response channel has no output data
\* or its first block is not a response start line; otherwise it copies the
\* status, the version and the reason of the start line into hc->res,
\* removes that block and no other, calls on-status-line once (when
\* installed), and goes to RES_END if the message is then empty with
\* end-of-message set, and to RES_HDR if not.
C27_StatusLine ==
    call.op = "stline" =>
        LET was == call.arg
            blks == was.res.htx.blks
            ready == was.res.output > 0 /\ blks # <<>> /\ blks[1].t = "SL"
            sl == blks[1].v[1]
        IN  IF ~ready
            THEN /\ call.dout = "more"
                 /\ ap.st0 = S_RES_STLINE
                 /\ hc = was.hc /\ res = was.res /\ ap.cbs = was.cbs
            ELSE /\ hc.res_status = sl.status
                 /\ hc.res_vsn = ist(sl.vsn)
                 /\ hc.res_reason = ist(sl.reason)
                 /\ res.htx = [was.res.htx EXCEPT !.blks = Tail(blks)]
                 /\ res.output = was.res.output - htx_get_blksz(blks[1])
                 /\ ap.cbs = IF "res_stline" \in hc.ops
                             THEN Append(was.cbs, "res_stline") ELSE was.cbs
                 /\ ap.st0 = IF Len(blks) = 1 /\ was.res.htx.eom
                             THEN S_RES_END ELSE S_RES_HDR

\* a start line that came alone and ended the message: the task is in
\* RES_END with the status, version and reason of the start line
C27_Witness ==
    /\ call.op = "stline"
    /\ ap.st0 = S_RES_END
    /\ hc.res_status = 404
    /\ hc.res_reason = ist("Not Found")
    /\ res.htx.blks = <<>>
    /\ ap.cbs = <<"res_stline">>

(***************************************************************************)
(* The response of a started task, with a body that can be longer than     *)
(* hc->res.buf: the peer sends its response block by block to the end, the *)
(* host runs the woken task (no allocation fails), the consumer takes what *)
(* hc->res.buf holds whenever it holds something, into a buffer that has   *)
(* room, and the host runs the exit hook of a task that shut its stream.   *)
(***************************************************************************)
ResBody == BufSize + 1

ResInit ==
    /\ \E ops \in OpsChoices :
         hc = [NoClient EXCEPT !.alloc = "live", !.caller = TRUE,
                               !.ops = ops \ {"req_payload"},
                               !.flags = {FS_STARTED}, !.appctx = APPCTX]
    /\ ap = [NoApplet EXCEPT !.id = APPCTX, !.alive = TRUE, !.woken = TRUE,
                             !.st0 = S_RES_STLINE]
    /\ res = NoChannel
    /\ req = NoChannel
    /\ wire = WireStart
    /\ tasks = 1
    /\ call = NoCall
    /\ cref = TRUE
    /\ mt = Idle
    /\ xfer_sock_list = NULL
    /\ xfer_mem = <<>>
    /\ Unbound

ResDeliver ==
    /\ Running
    /\ ap.alive /\ ~ap.shut /\ ~res.shut
    /\ ap' = [ap EXCEPT !.woken = TRUE]
    /\ call' = NoCall
    /\ UNCHANGED <<hc, req, tasks, cref, mt>>
    /\ UNCHANGED socks
    /\ \E n \in WireNextFor(wire, 1, ResBody) :
         /\ wire' = n.wire
         /\ res' = [res EXCEPT !.htx.blks = Append(@, n.blk),
                               !.htx.eom = n.eom,
                               !.output = @ + htx_get_blksz(n.blk)]

ResIo ==
    /\ Running
    /\ ap.alive /\ ap.woken /\ ~ap.shut
    /\ call' = NoCall
    /\ UNCHANGED <<wire, cref, mt>>
    /\ UNCHANGED socks
    /\ \E env \in {[pay |-> [n |-> -1, end |-> FALSE, oom |-> FALSE], oom_hdrs |-> FALSE,
                    crash |-> FALSE, g |-> IST_NULL, oom_buf |-> FALSE]} :
         \E W \in {httpclient_applet_io_handler(World, env)} : Commit(W)

ResDrain ==
    /\ CanCall
    /\ hc.res_buf.data # <<>>
    /\ UNCHANGED <<wire, cref, mt>>
    /\ UNCHANGED socks
    /\ \E fill \in 0..(DstSize - 1) :
         \E din \in {[i \in 1..fill |-> 0]} :
           \E X \in {httpclient_res_xfer(World, din)} :
             /\ Commit(X.W)
             /\ call' = [op |-> "res_xfer", v |-> X.W.ret, arg |-> din, dout |-> X.dst,
                         bin |-> hc.res_buf.data]

ResNext == ResDeliver \/ ResIo \/ ResDrain \/ HostWake \/ Release

SpecRes ==
    /\ ResInit /\ [][ResNext]_vars
    /\ WF_vars(ResDeliver) /\ WF_vars(ResIo) /\ WF_vars(ResDrain) /\ WF_vars(Release)

\* the body bytes that are in hc->res.buf or still in the response channel
Pending == hc.res_buf.data \o HtxBytes(res.htx.blks)

\* C28: over any interleaving of calls of the handler and of
\* httpclient_res_xfer, the bytes that go through hc->res.buf are the bytes
\* of the data blocks in the order the peer sent them: what hc->res.buf
\* holds, followed by what the channel still holds, is always the unbroken
\* run of the last bytes sent; hc->res.buf never holds more than its size;
\* a step of the handler only moves bytes from the head of the channel's
\* data to the tail of hc->res.buf (a block copied in part goes on from its
\* remaining bytes), and a drain takes bytes from the head of hc->res.buf:
\* no byte is duplicated, dropped or reordered.
C28_BodyInWireOrder ==
    /\ [](ap.alive =>
            /\ Len(hc.res_buf.data) <= BufSize
            /\ Pending = Range1(wire.nb - Len(Pending) + 1, wire.nb))
    /\ [][(ap.alive /\ ap'.alive) =>
            IF call'.op = "res_xfer"
            THEN /\ Pending' = SubSeq(Pending, call'.v + 1, Len(Pending))
                 /\ call'.dout = call'.arg \o SubSeq(Pending, 1, call'.v)
                 /\ res' = res
            ELSE /\ Len(Pending') - Len(Pending) = wire'.nb - wire.nb
                 /\ Len(hc'.res_buf.data) >= Len(hc.res_buf.data)
                 /\ SubSeq(hc'.res_buf.data, 1, Len(hc.res_buf.data)) = hc.res_buf.data]_vars

\* a block of three bytes was copied in part into a buffer of two, the
\* consumer took the first byte, and the rest of the block was copied
C28_Witness ==
    /\ ap.alive
    /\ wire.nb = ResBody
    /\ hc.res_buf.data = Range1(2, ResBody)
    /\ res.htx.blks = <<>>

(***************************************************************************)
(* RES_BODY on its own: a task in RES_BODY, a response channel that holds  *)
(* any blocks a body is made of, none included, with or without            *)
(* end-of-message, accounted as output or not, and hc->res.buf absent,     *)
(* partly filled or full; the host runs the task.                          *)
(***************************************************************************)
RbKinds == {"D1", "D2", "EOT"}

RbBlk(k) ==
    CASE k = "D1" -> Blk("DATA", <<1>>)
      [] k = "D2" -> Blk("DATA", <<1, 2>>)
      [] k = "EOT" -> Blk("EOT", <<0>>)

RbInit ==
    /\ \E ops \in OpsChoices, held \in 0..BufSize :
         hc = [NoClient EXCEPT !.alloc = "live", !.caller = TRUE,
                               !.ops = ops \ {"req_payload"},
                               !.flags = {FS_STARTED}, !.appctx = APPCTX,
                               !.res_buf = [alloc |-> held > 0,
                                            data |-> [i \in 1..held |-> 0]]]
    /\ ap = [NoApplet EXCEPT !.id = APPCTX, !.alive = TRUE, !.woken = TRUE,
                             !.st0 = S_RES_BODY]
    /\ \E ks \in SeqsUpTo(RbKinds, 2), eom \in BOOLEAN, counted \in BOOLEAN :
         \E blks \in {[i \in 1..Len(ks) |-> RbBlk(ks[i])]} :
            res = [NoChannel EXCEPT !.htx = [blks |-> blks, eom |-> eom],
                                    !.output = IF counted THEN SumSz(blks) ELSE 0]
    /\ req = NoChannel
    /\ wire = NoWire
    /\ tasks = 1
    /\ call = NoCall
    /\ cref = TRUE
    /\ mt = Idle
    /\ xfer_sock_list = NULL
    /\ xfer_mem = <<>>
    /\ Unbound

RbStep ==
    /\ ap.alive /\ ap.woken /\ ~ap.shut
    /\ ap.st0 = S_RES_BODY
    /\ UNCHANGED <<wire, cref, mt>>
    /\ UNCHANGED socks
    /\ \E oom \in {FALSE, ~hc.res_buf.alloc} :
         \E env \in {[pay |-> [n |-> -1, end |-> FALSE, oom |-> FALSE], oom_hdrs |-> FALSE,
                      crash |-> FALSE, g |-> IST_NULL, oom_buf |-> oom]} :
           \E W \in {httpclient_applet_io_handler(World, env)} :
             /\ Commit(W)
             /\ call' = [Call("resbody", 0) EXCEPT
                          !.arg = [hc |-> hc, res |-> res, oom |-> oom]]

RbNext == RbStep

SpecRb == RbInit /\ [][RbNext]_vars

\* the wake-up went past the tests at the top of RES_BODY and into its loop
RbEntered(was) ==
    /\ was.res.output > 0
    /\ ~htx_is_empty(was.res.htx)
    /\ ~was.oom
    /\ Len(was.hc.res_buf.data) < BufSize

C30_DrainedTaskEnds ==
    /\ ap.alive ~> (ap.alive /\ ap.st0 = S_RES_END)
    /\ (ap.alive /\ "res_end" \in hc.ops) ~> (~ap.alive /\ ap.end # <<>>)
    /\ [][(call'.op = "res_xfer" /\ ap.alive /\ hc'.res_buf.data = <<>>) =>
            ap'.woken /\ ~hc'.res_buf.alloc]_vars

\* the whole response was delivered and the task is suspended on a full
\* hc->res.buf, with a block it copied in part still in the channel
C30_Witness ==
    /\ ap.alive /\ ~ap.woken
    /\ ap.st0 = S_RES_BODY
    /\ wire.ph = "done"
    /\ Len(hc.res_buf.data) = BufSize
    /\ res.htx.blks # <<>>
    /\ Head(res.htx.blks).t = "DATA"
    /\ Head(res.htx.blks).v = <<ResBody>>

\* C31: between the steps hc->req.buf and hc->res.buf of a client are each
\* either released or hold something: an allocated buffer is never empty.
C31_NoEmptyBufferHeld ==
    hc.alloc = "live" =>
        /\ hc.res_buf.alloc => hc.res_buf.data # <<>>
        /\ hc.req_buf.alloc => ~htx_is_empty(hc.req_buf.htx)

(***************************************************************************)
(* The request body handed over by the caller from outside the task: the   *)
(* caller calls httpclient_req_xfer between the steps of a task that is in *)
(* REQ_BODY, the host runs the woken task and the transport sends what the *)
(* request channel holds.                                                  *)
(***************************************************************************)
ReqXfer ==
    /\ CanCall
    /\ ap.alive /\ ~ap.shut
    /\ ap.st0 = S_REQ_BODY
    /\ hc.pushed < BodyLen
    /\ ~hc.req_buf.htx.eom
    /\ UNCHANGED <<wire, cref, mt>>
    /\ UNCHANGED socks
    /\ \E n \in 0..(BodyLen - hc.pushed), end \in BOOLEAN, oom \in {FALSE, ~hc.req_buf.alloc} :
         \E W \in {httpclient_req_xfer(World, Range1(hc.pushed + 1, hc.pushed + n), end, oom)} :
           /\ Commit(W)
           /\ call' = [Call("req_xfer", W.ret) EXCEPT
                        !.arg = [n |-> n, end |-> end, oom |-> oom, woken |-> ap.woken]]

ReqIo ==
    /\ Running
    /\ ap.alive /\ ap.woken /\ ~ap.shut
    /\ call' = NoCall
    /\ UNCHANGED <<wire, cref, mt>>
    /\ UNCHANGED socks
    /\ \E env \in {[pay |-> [n |-> -1, end |-> FALSE, oom |-> FALSE], oom_hdrs |-> FALSE,
                    crash |-> FALSE, g |-> IST_NULL, oom_buf |-> FALSE]} :
         \E W \in {httpclient_applet_io_handler(World, env)} : Commit(W)

ReqNext == ReqXfer \/ ReqIo \/ HostSend

SpecReq == BodyInit /\ [][ReqNext]_vars

\* C32, as stated: every call of httpclient_req_xfer on a client whose task
\* is running leaves that task woken, whatever the call did.
C32_ReqXferAlwaysWakes ==
    (call.op = "req_xfer" /\ ap.alive) => ap.woken

\* C32, amended: a call of httpclient_req_xfer on a client whose task is
\* running wakes the task once hc->req.buf is there, before any data is
\* added and also when no byte is taken; a call whose allocation of
\* hc->req.buf fails returns 0, changes nothing and wakes nothing.
C32_ReqXferWakesOnceAllocated ==
    (call.op = "req_xfer" /\ ap.alive) =>
        IF call.arg.oom
        THEN /\ call.v = 0
             /\ ap.woken = call.arg.woken
             /\ ~hc.req_buf.alloc
        ELSE ap.woken /\ hc.req_buf.alloc

\* a call that took no byte woke a task that was not woken
C32_Witness ==
    /\ call.op = "req_xfer"
    /\ ~call.arg.oom
    /\ call.v = 0
    /\ ~call.arg.woken
    /\ ap.alive /\ ap.woken

\* the body bytes that are in the request channel or still in hc->req.buf
ReqPending == HtxBytes(req.htx.blks) \o HtxBytes(hc.req_buf.htx.blks)

\* C33: the body bytes httpclient_req_xfer accepted reach the transport in
\* the order they were accepted: what the request channel holds, followed
\* by what hc->req.buf holds, is always the unbroken run of the last bytes
\* accepted, the task only appends bytes from the head of hc->req.buf to
\* the channel and the transport takes what the channel holds.
\* End-of-message is in the channel only when hc->req.buf holds nothing
\* more; the step that puts it there marks the request as complete
\* (CF_EOI) and moves the task from REQ_BODY to RES_STLINE, which no other
\* step does and which happens once.
C33_BodyThenEomOnce ==
    /\ [](ap.alive =>
            /\ ReqPending = Range1(hc.pushed - Len(ReqPending) + 1, hc.pushed)
            /\ req.htx.eom => (htx_is_empty(hc.req_buf.htx) /\ req.eoi)
            /\ req.eoi <=> (req.htx.eom /\ ap.st0 = S_RES_STLINE)
            /\ ap.st0 \in {S_REQ_BODY, S_RES_STLINE})
    /\ [][(ap.alive /\ ap'.alive) =>
            /\ req.eoi => req'.eoi
            /\ (ap.st0 = S_REQ_BODY /\ ap'.st0 # S_REQ_BODY) => (~req.eoi /\ req'.eoi)
            /\ ap.st0 = S_RES_STLINE => ap'.st0 = S_RES_STLINE
            /\ LET was == HtxBytes(req.htx.blks)
                   now == HtxBytes(req'.htx.blks)
                   src == HtxBytes(hc.req_buf.htx.blks)
               IN  \/ now = <<>> /\ hc' = hc
                   \/ /\ Len(now) >= Len(was)
                      /\ now = was \o SubSeq(src, 1, Len(now) - Len(was))]_vars

\* the whole body went to the transport in two parts, the second with
\* end-of-message, and the task is in RES_STLINE
C33_Witness ==
    /\ ap.alive
    /\ hc.pushed = BodyLen
    /\ req.eoi
    /\ ap.st0 = S_RES_STLINE
    /\ req.htx.blks = <<>>
    /\ ~hc.req_buf.alloc

(***************************************************************************)
(* One wake-up on its own: a task in any state it can be woken in, with    *)
(* or without HTTPCLIENT_FA_STOP, a response channel that holds any block  *)
(* or none, and any of the shutdown flags the label more looks at; the     *)
(* host runs the task (no allocation fails, the callback pushes nothing).  *)
(***************************************************************************)
EndKinds == {"SL", "HDR", "EOH", "D1", "EOT"}

EndBlk(k) ==
    CASE k = "SL" -> Blk("SL", StLine(200, "HTTP/1.1", "OK"))
      [] k = "HDR" -> Blk("HDR", <<1>>)
      [] k = "EOH" -> Blk("EOH", <<0>>)
      [] k = "D1" -> Blk("DATA", <<1>>)
      [] k = "EOT" -> Blk("EOT", <<0>>)

EndInit ==
    /\ \E ops \in OpsChoices, stop \in BOOLEAN :
         hc = [NoClient EXCEPT !.alloc = "live", !.caller = ~stop, !.ops = ops,
                               !.flags = IF stop THEN {FS_STARTED, FA_STOP, FA_AUTOKILL}
                                         ELSE {FS_STARTED},
                               !.appctx = APPCTX]
    /\ \E st \in {S_REQ_BODY, S_RES_STLINE, S_RES_HDR, S_RES_BODY} :
         ap = [NoApplet EXCEPT !.id = APPCTX, !.alive = TRUE, !.woken = TRUE, !.st0 = st]
    /\ \E ks \in SeqsUpTo(EndKinds, 1), eom \in BOOLEAN, counted \in BOOLEAN,
          shutw \in BOOLEAN, now \in BOOLEAN :
         \E blks \in {[i \in 1..Len(ks) |-> EndBlk(ks[i])]} :
            res = [NoChannel EXCEPT !.htx = [blks |-> blks, eom |-> eom],
                                    !.output = IF counted THEN SumSz(blks) ELSE 0,
                                    !.shut = shutw, !.shutw_now = now]
    /\ \E shutr \in BOOLEAN : req = [NoChannel EXCEPT !.shut = shutr]
    /\ wire = NoWire
    /\ tasks = 1
    /\ call = NoCall
    /\ cref = TRUE
    /\ mt = Idle
    /\ xfer_sock_list = NULL
    /\ xfer_mem = <<>>
    /\ Unbound

EndStep ==
    /\ Running
    /\ ap.alive /\ ap.woken /\ ~ap.shut
    /\ UNCHANGED <<wire, cref, mt>>
    /\ UNCHANGED socks
    /\ \E env \in {[pay |-> [n |-> -1, end |-> FALSE, oom |-> FALSE], oom_hdrs |-> FALSE,
                    crash |-> FALSE, g |-> IST_NULL, oom_buf |-> FALSE]} :
         \E W \in {httpclient_applet_io_handler(World, env)} :
           /\ Commit(W)
           /\ call' = [Call("wake", 0) EXCEPT
                        !.arg = [hc |-> hc, ap |-> ap, res |-> res, req |-> req]]

EndNext == EndStep \/ HostWake

SpecEnd == EndInit /\ [][EndNext]_vars

\* the state the task is left in cannot go on for lack of data: its code
\* went to the label more
LackOfData ==
    CASE ap.st0 = S_REQ_BODY -> "req_payload" \in hc.ops /\ htx_is_empty(hc.req_buf.htx)
      [] ap.st0 = S_RES_BODY -> res.output = 0 \/ htx_is_empty(res.htx)
      [] OTHER -> TRUE

\* a half-close the label more stops the task on
HalfClose == req.shut \/ res.shut \/ (res.shutw_now /\ channel_is_empty(res))

\* C34: a wake-up ends with both directions of the stream shut in each of
\* three cases: it found HTTPCLIENT_FA_STOP set, and then the state, the
\* channels, the client and the callbacks invoked are as they were; the
\* task got to RES_END; the task yielded for lack of data while the request
\* channel was shut for reading, or the response channel shut for writing,
\* or about to be with nothing left in it.  In no other case is the stream
\* shut.
C34_Teardown ==
    call.op = "wake" =>
        LET was == call.arg
            stop == FA_STOP \in was.hc.flags
        IN  /\ stop => /\ ap.shut
                       /\ ap.st0 = was.ap.st0 /\ ap.cbs = was.ap.cbs
                       /\ hc = was.hc /\ res = was.res /\ req = was.req
            /\ ap.st0 = S_RES_END => ap.shut
            /\ (LackOfData /\ HalfClose) => ap.shut
            /\ ap.shut => (stop \/ ap.st0 = S_RES_END \/ (LackOfData /\ HalfClose))

\* a task without data that stopped on a pending shutdown of an empty
\* response channel alone
C34_Witness ==
    /\ call.op = "wake"
    /\ FA_STOP \notin hc.flags
    /\ ap.st0 = S_RES_BODY
    /\ ap.shut
    /\ ~req.shut /\ ~res.shut /\ res.shutw_now

(***************************************************************************)
(* The httpclient command of the CLI.  Its callbacks only set a flag of    *)
(* ctx->flags and wake the CLI applet; hc_cli_io_handler writes what the   *)
(* flags announce.  env.put_sl, env.put_hdr: applet_putchk takes the       *)
(* status line, the headers; env.too_many: the headers do not fit in the   *)
(* trash chunk; env.din: what the input buffer of the CLI's stream holds.  *)
(* cli_err returns 1.  The result is [W, cli].                             *)
(***************************************************************************)
HC_CLI_F_RES_STLINE == "STLINE"
HC_CLI_F_RES_HDR == "HDR"
HC_CLI_F_RES_BODY == "BODY"
HC_CLI_F_RES_END == "END"

\* hc_cli_res_stline_cb, hc_cli_res_headers_cb, hc_cli_res_body_cb and
\* hc_cli_res_end_cb: nothing without a caller
hc_cli_res_cb(c, caller, flag) ==
    IF ~caller THEN c ELSE [c EXCEPT !.flags = @ \cup {flag}]

\* the code from the test of HC_CLI_F_RES_BODY to the end
hc_cli_io_body(W, c, env) ==
    LET X == httpclient_res_xfer(W, env.din)
        more == X.W.hc.res_buf.data # <<>>
        c1 == IF HC_CLI_F_RES_BODY \in c.flags
              THEN [c EXCEPT !.out = Append(@, "body"),
                             !.flags = IF more THEN @ ELSE @ \ {HC_CLI_F_RES_BODY}]
              ELSE c
        W1 == IF HC_CLI_F_RES_BODY \in c.flags THEN X.W ELSE W
    IN  IF HC_CLI_F_RES_BODY \in c.flags /\ more THEN [W |-> W1, cli |-> [c1 EXCEPT !.ret = 0]]
        ELSE IF c1.flags = {HC_CLI_F_RES_END}
        THEN [W |-> W1, cli |-> [c1 EXCEPT !.flags = {}, !.ret = 1]]
        ELSE [W |-> W1, cli |-> [c1 EXCEPT !.ret = 0]]

\* the code from the test of HC_CLI_F_RES_HDR on
hc_cli_io_hdr(W, c, env) ==
    IF HC_CLI_F_RES_HDR \notin c.flags THEN hc_cli_io_body(W, c, env)
    ELSE IF env.too_many THEN [W |-> W, cli |-> [c EXCEPT !.out = Append(@, "err"), !.ret = 1]]
    ELSE IF ~env.put_hdr THEN [W |-> W, cli |-> [c EXCEPT !.ret = 0]]
    ELSE hc_cli_io_body(W, [c EXCEPT !.out = Append(@, "hdrs"),
                                     !.flags = @ \ {HC_CLI_F_RES_HDR}], env)

hc_cli_io_handler_noretry(W, c0, env) ==
    LET c == [c0 EXCEPT !.out = <<>>]
    IN  IF HC_CLI_F_RES_STLINE \notin c.flags THEN hc_cli_io_hdr(W, c, env)
        ELSE IF ~env.put_sl
        THEN [W |-> W, cli |-> [c EXCEPT !.flags = @ \ {HC_CLI_F_RES_STLINE}, !.ret = 0]]
        ELSE hc_cli_io_hdr(W, [c EXCEPT !.out = Append(@, "stline"),
                                        !.flags = @ \ {HC_CLI_F_RES_STLINE}], env)

hc_cli_io_handler(W, c0, env) ==
    LET c == [c0 EXCEPT !.out = <<>>]
    IN  IF HC_CLI_F_RES_STLINE \notin c.flags THEN hc_cli_io_hdr(W, c, env)
        ELSE IF ~env.put_sl THEN [W |-> W, cli |-> [c EXCEPT !.ret = 0]]
        ELSE hc_cli_io_hdr(W, [c EXCEPT !.out = Append(@, "stline"),
                                        !.flags = @ \ {HC_CLI_F_RES_STLINE}], env)

(***************************************************************************)
(* A CLI command whose client was started: the task of the client          *)
(* notifies in the order of a transfer (status line, headers when there    *)
(* are some, body bytes put into hc->res.buf, end), and the CLI applet     *)
(* runs its handler until it returns 1.  wire.nb counts the body bytes.    *)
(***************************************************************************)
CliInit ==
    /\ hc = [NoClient EXCEPT !.alloc = "live", !.caller = TRUE,
                             !.ops = AllOps \ {"req_payload"},
                             !.flags = {FS_STARTED}, !.appctx = APPCTX]
    /\ ap = [NoApplet EXCEPT !.id = APPCTX, !.alive = TRUE]
    /\ res = NoChannel
    /\ req = NoChannel
    /\ wire = WireStart
    /\ tasks = 1
    /\ call = NoCall
    /\ cref = TRUE
    /\ mt = Idle
    /\ xfer_sock_list = NULL
    /\ xfer_mem = <<>>
    /\ rcv = NoReceiver /\ fdtab = <<>> /\ glob = <<>>
    /\ cli = NoCli

CliStline ==
    /\ cli.ph = 0
    /\ hc' = [hc EXCEPT !.res_status = 200, !.res_vsn = ist("HTTP/1.1"),
                        !.res_reason = ist("OK")]
    /\ cli' = [hc_cli_res_cb(cli, hc.caller, HC_CLI_F_RES_STLINE) EXCEPT !.ph = 1]
    /\ call' = NoCall
    /\ UNCHANGED <<ap, res, req, wire, tasks, cref, mt, xfer, bound>>

CliHeaders ==
    /\ cli.ph = 1
    /\ hc' = [hc EXCEPT !.res_hdrs = <<1, IST_NULL>>]
    /\ cli' = [hc_cli_res_cb(cli, hc.caller, HC_CLI_F_RES_HDR) EXCEPT !.ph = 2]
    /\ call' = NoCall
    /\ UNCHANGED <<ap, res, req, wire, tasks, cref, mt, xfer, bound>>

CliBody ==
    /\ cli.ph \in {1, 2, 3}
    /\ \E k \in 1..Min(BufSize - Len(hc.res_buf.data), MaxBody - wire.nb) :
         /\ hc' = [hc EXCEPT !.res_buf = [alloc |-> TRUE,
                                          data |-> @.data \o Range1(wire.nb + 1, wire.nb + k)]]
         /\ wire' = [wire EXCEPT !.nb = @ + k]
    /\ cli' = [hc_cli_res_cb(cli, hc.caller, HC_CLI_F_RES_BODY) EXCEPT !.ph = 3]
    /\ call' = NoCall
    /\ UNCHANGED <<ap, res, req, tasks, cref, mt, xfer, bound>>

CliEnd ==
    /\ cli.ph \in {1, 2, 3}
    /\ \E W \in {release(World)} :
         /\ Commit(W)
         /\ cli' = [hc_cli_res_cb(cli, hc.caller, HC_CLI_F_RES_END) EXCEPT !.ph = 4]
    /\ call' = NoCall
    /\ UNCHANGED <<wire, cref, mt, xfer, bound>>

CliEnvs ==
    [put_sl : BOOLEAN, put_hdr : BOOLEAN, too_many : BOOLEAN,
     din : {[i \in 1..fill |-> 0] : fill \in 0..DstSize}]

CliIo ==
    /\ cli.ret = 0
    /\ \E env \in CliEnvs :
         \E R \in {hc_cli_io_handler(World, cli, env)} :
           /\ Commit(R.W)
           /\ cli' = R.cli
           /\ call' = [Call("cli_io", R.cli.ret) EXCEPT
                        !.arg = [flags |-> cli.flags, env |-> env, data |-> hc.res_buf.data]]
    /\ UNCHANGED <<wire, cref, mt, xfer, bound>>

CliNext == CliStline \/ CliHeaders \/ CliBody \/ CliEnd \/ CliIo

SpecCli == CliInit /\ [][CliNext]_vars

\* what a call had to write for each flag, in the order of the code
CliOrder == <<HC_CLI_F_RES_STLINE, HC_CLI_F_RES_HDR, HC_CLI_F_RES_BODY>>

CliTag(f) ==
    CASE f = HC_CLI_F_RES_STLINE -> "stline"
      [] f = HC_CLI_F_RES_HDR -> "hdrs"
      [] f = HC_CLI_F_RES_BODY -> "body"

\* C35, as stated: the handler returns 1 only when END was the only flag
\* left, every other pending notification having been written in full.
C35_CompletesOnEndOnly ==
    (call.op = "cli_io" /\ cli.ret = 1) =>
        /\ HC_CLI_F_RES_END \in call.arg.flags
        /\ cli.flags = {}
        /\ hc.res_buf.data = <<>>

\* C35, amended: the handler returns 1 when END was the only flag left,
\* every other pending notification having been written in full and
\* hc->res.buf emptied, and also, with its flags left as they are, when the
\* headers do not fit in the trash chunk (cli_err); in one call it writes
\* in the order status line, headers, body; it sets no flag, and it clears
\* a flag only when it wrote what the flag announces in full: the status
\* line or the headers taken by applet_putchk, the body with nothing left
\* in hc->res.buf.
C35_CompletesOnEndOrError ==
    call.op = "cli_io" =>
        LET was == call.arg
            pos(t) == CHOOSE i \in 1..Len(cli.out) : cli.out[i] = t
            has(t) == \E i \in 1..Len(cli.out) : cli.out[i] = t
        IN  /\ cli.ret = 1 =>
                 \/ /\ HC_CLI_F_RES_END \in was.flags
                    /\ cli.flags = {}
                    /\ hc.res_buf.data = <<>>
                    /\ \A i \in 1..3 : CliOrder[i] \in was.flags => has(CliTag(CliOrder[i]))
                 \/ /\ HC_CLI_F_RES_HDR \in was.flags /\ was.env.too_many
                    /\ has("err")
                    /\ cli.flags = was.flags \ (IF has("stline") THEN {HC_CLI_F_RES_STLINE} ELSE {})
            /\ \A i, j \in 1..3 :
                 (i < j /\ has(CliTag(CliOrder[i])) /\ has(CliTag(CliOrder[j]))) =>
                    pos(CliTag(CliOrder[i])) < pos(CliTag(CliOrder[j]))
            /\ \A i \in 1..3 : has(CliTag(CliOrder[i])) => CliOrder[i] \in was.flags
            /\ cli.flags \subseteq was.flags
            /\ \A i \in 1..3 :
                 (CliOrder[i] \in was.flags /\ CliOrder[i] \notin cli.flags) =>
                    /\ has(CliTag(CliOrder[i]))
                    /\ CliOrder[i] = HC_CLI_F_RES_BODY => hc.res_buf.data = <<>>
            /\ (HC_CLI_F_RES_STLINE \in was.flags /\ ~was.env.put_sl) =>
                 (cli.out = <<>> /\ cli.flags = was.flags /\ cli.ret = 0)

\* a call that wrote the status line, the headers and the last of the body
\* with END pending, and returned 1
C35_Witness ==
    /\ call.op = "cli_io"
    /\ cli.ret = 1
    /\ cli.out = <<"stline", "hdrs", "body">>
    /\ call.arg.flags = {HC_CLI_F_RES_STLINE, HC_CLI_F_RES_HDR, HC_CLI_F_RES_BODY,
                         HC_CLI_F_RES_END}
    /\ cli.flags = {}

(***************************************************************************)
(* The exit hook with a caller whose on-end callback gives the client up.  *)
(* hc->ops.res_end is the caller's code: it may notify the caller (as      *)
(* hc_cli_res_end_cb does) or, the caller being done with the client, call *)
(* httpclient_stop_and_destroy on it.  The hook has set ENDED before the   *)
(* call, so that call destroys the client at once.  After the callback the *)
(* hook tests hc->flags & HTTPCLIENT_FA_AUTOKILL whatever the callback     *)
(* did: on a freed client the test reads freed memory (uaf) and finds what *)
(* the memory holds by then (g), and when it finds the flag the hook       *)
(* destroys the client a second time.                                      *)
(***************************************************************************)
\* the caller's on-end callback: kill is set when it calls
\* httpclient_stop_and_destroy; a detached caller (hc->caller null) has
\* given the client up already and only returns
res_end_caller(W, kill) ==
    IF kill /\ W.hc.caller
    THEN httpclient_stop_and_destroy(Callback(W, "res_end"))
    ELSE res_end_cb(W)

httpclient_applet_release_cb(W, kill, g) ==
    LET W1 == [W EXCEPT !.hc.flags = @ \cup {FS_ENDED}, !.hc.appctx = NULL]
        W2 == IF "res_end" \in W1.hc.ops THEN res_end_caller(W1, kill) ELSE W1
        gone == W2.hc.alloc = "freed"
        W3 == [W2 EXCEPT !.hc.uaf = @ \/ gone]
        autokill == IF gone THEN g ELSE FA_AUTOKILL \in W2.hc.flags
    IN  IF autokill
        THEN [W3 EXCEPT !.hc = httpclient_destroy(W3.hc)]
        ELSE W3

\* the host runs the exit hook, then frees the applet and its stream; the
\* caller that destroyed the client in its callback drops its pointer
ReleaseCb ==
    /\ Running
    /\ ap.alive /\ (ap.shut \/ res.shut)
    /\ call' = NoCall
    /\ wire' = NoWire
    /\ UNCHANGED mt
    /\ UNCHANGED socks
    /\ \E kill \in {FALSE, hc.caller /\ "res_end" \in hc.ops} :
         \E g \in {FALSE, kill} :
           \E R \in {httpclient_applet_release_cb(World, kill, g)} :
             /\ Commit([R EXCEPT !.ap = [NoApplet EXCEPT !.id = R.ap.id, !.cbs = R.ap.cbs,
                                                         !.end = R.ap.end],
                                 !.tasks = @ - 1,
                                 !.res = NoChannel, !.req = NoChannel])
             /\ cref' = (cref /\ ~kill)

CbNext ==
    \/ New
    \/ Start
    \/ StopAndDestroy
    \/ ResXfer
    \/ IoHandler
    \/ ReleaseCb
    \/ HostDeliver
    \/ HostSend
    \/ HostShut
    \/ HostWake

SpecCb == Init /\ [][CbNext]_vars

\* C36: no field of a client is read or written after the client was
\* destroyed, and a client is destroyed once, in every sequence of API calls
\* and task steps of one thread, the on-end callback calling
\* httpclient_stop_and_destroy included
C36_NoAccessAfterDestroy ==
    /\ ~hc.uaf
    /\ hc.destroys <= 1

\* a start that was not refused and returned NULL: appctx_new_here or
\* httpclient_applet_init failed
StartFailed ==
    /\ call.op = "start"
    /\ ~call.arg.refused
    /\ call.v = NULL

\* what holds of the task reference between the API calls and the steps of
\* the task, given what a failed start leaves of the flags
TaskReference(failed) ==
    (Running /\ hc.alloc = "live") =>
        /\ (httpclient_started(hc) /\ ~httpclient_ended(hc)) =>
              (hc.appctx # NULL /\ hc.appctx = ap.id /\ ap.alive /\ tasks = 1)
        /\ (httpclient_ended(hc) \/ ~httpclient_started(hc)) =>
              (hc.appctx = NULL /\ ~ap.alive)
        /\ StartFailed =>
              /\ failed
              /\ httpclient_stop_and_destroy(World).hc.alloc = "freed"
        /\ (call.op = "start" /\ call.v # NULL) =>
              (httpclient_started(hc) /\ ~httpclient_ended(hc) /\ hc.appctx = call.v)
        /\ (httpclient_started(hc) /\ ~httpclient_ended(hc)) =>
              LET S == httpclient_stop_and_destroy([World EXCEPT !.ap.woken = FALSE])
              IN  S.ap.woken /\ S.hc.alloc = "live" /\ {FA_STOP, FA_AUTOKILL} \subseteq S.hc.flags
        /\ call.op = "stop_and_destroy" =>
              (ap.alive /\ ap.woken /\ hc.appctx = ap.id
               /\ {FA_STOP, FA_AUTOKILL} \subseteq hc.flags)

\* C37, as the spec states it: between the API calls and the steps of the
\* task, a client that is started and not ended is bound to its task
\* (hc->appctx is the running applet), and a client that has ENDED set or
\* was not successfully started has a null hc->appctx; a failed start never
\* leaves STARTED set, so that httpclient_stop_and_destroy destroys the
\* client at once; and httpclient_stop_and_destroy on a running task always
\* wakes it.
C37_FailedStartLeavesStartedClear ==
    TaskReference(~httpclient_started(hc))

\* C37, as the code has it: the same, but a failed start never leaves
\* STARTED set without ENDED: when httpclient_applet_init fails the flags
\* are cleared, and when appctx_new_here fails they are as they were, those
\* of a client never started or of one that has ended (STARTED and ENDED).
C37_TaskReference ==
    TaskReference(
        /\ call.arg.newok => hc.flags = {}
        /\ ~call.arg.newok => hc.flags \in {{}, {FS_STARTED, FS_ENDED}})

\* a client that ended once, was started again and failed in
\* httpclient_applet_init: it is live, unbound and has no flag left
C37_Witness ==
    /\ StartFailed
    /\ call.arg.newok
    /\ hc.alloc = "live"
    /\ hc.flags = {}
    /\ hc.appctx = NULL
    /\ ap.id # NULL

\* C38: httpclient_set_dst returns 0 exactly when the address parses and
\* its copy is allocated, and hc->dst is then the parsed address; in every
\* other case it returns -1 and hc->dst is null, also when an earlier call
\* had installed an override, so that a start made then takes the
\* destination from the URL (its host or 0.0.0.0, with its port).
C38_SetDstInstallsOrClears ==
    call.op = "set_dst" =>
        /\ call.v \in {0, -1}
        /\ call.v = 0 <=> (str2sa_range(call.arg.dst) # NoAddr /\ ~call.arg.oom)
        /\ call.v = 0 => (hc.dst = str2sa_range(call.arg.dst) /\ hc.dst # NoAddr)
        /\ call.v = -1 =>
              /\ hc.dst = NoAddr
              /\ \A env \in InitEnvs :
                    LET S == httpclient_start(World, APPCTX, TRUE, env)
                        U == httpclient_spliturl(env.url, env.g)
                        d == IF S.strm.scf_dst # NoAddr THEN S.strm.scf_dst
                             ELSE S.strm.scb_dst
                    IN  S.ret # NULL =>
                          /\ d.port = U.port
                          /\ d.ip \in {U.host, AnyIp}
                          /\ d # call.arg.had

\* a call that failed after an earlier one had installed an override
C38_Witness ==
    /\ call.op = "set_dst"
    /\ call.v = -1
    /\ call.arg.had = str2sa_range(DstGood)
    /\ hc.dst = NoAddr
    /\ \E env \in InitEnvs : httpclient_start(World, APPCTX, TRUE, env).ret # NULL

====
